---------------------------- MODULE Spec2Model ----------------------------
(***************************************************************************)
(* A state-machine model of the LinkKF downloader.                         *)
(*                                                                         *)
(*   src/linkkf_downloader.py  LinkKFDownloader: extract_video_info,       *)
(*                             download_m3u8_segments_advanced,            *)
(*                             download_video                              *)
(*   src/linkkf_gui.py         LinkKFGUI: start_download, stop_download,   *)
(*                             download_worker, download_finished          *)
(*                                                                         *)
(* The specifications of this module share its variables:                  *)
(*   Spec      one call of download_video, stage by stage (resolution,     *)
(*             manifest fetch, segment pool, gate, merge, cleanup);        *)
(*   UnitSpec  one fetch unit download_segment_advanced, request by        *)
(*             request;                                                    *)
(*   GuiSpec   the front end: the Tk main thread (start, stop, scheduled   *)
(*             callbacks) and the worker threads it spawns, each running   *)
(*             download sessions on the shared temp_segments directory;    *)
(*   SortSpec  the file-name sort of line 889 applied to sampled indexes.  *)
(* Each specification holds the variables of the others at their idle      *)
(* values.                                                                 *)
(***************************************************************************)
EXTENDS Integers, Sequences, FiniteSets, TLC

\* ------------------------------------------------------------------------
\* Bounds of the model
\* ------------------------------------------------------------------------

\* largest number of segment lines in a manifest
MaxSegs == 5

\* GuiSpec: batches the user starts, targets per batch, segments per target
MaxBatches == 2
MaxUrls == 2
MaxGuiSegs == 1
Workers == 1..MaxBatches

\* SortSpec: longest list sorted, and the indexes its entries are drawn from
SortLen == 3

\* ProbeSpec: candidates probed in one stage
MaxProbes == 3

\* ValidateSpec: longest run of digits in a sampled URL
MaxDigits == 2

\* ParseSpec: most lines in a sampled playlist
MaxLines == 3
MaxBodyLen == 2
MaxCalls == 2
MaxRuns == 3
MaxEntries == 10
MaxParams == 2
SampleIndexes == {0, 7, 10000, 99999, 100000, 100001}

\* ------------------------------------------------------------------------
\* Program constants
\* ------------------------------------------------------------------------

\* browser_profiles, in catalog order (the 'name' of each profile)
browser_profiles ==
    <<"Chrome Windows", "Firefox Windows", "Safari macOS", "VLC Player", "FFmpeg">>

\* countries of the CloudFlare bypass pass, in order
countries == <<"KR", "US", "JP", "SG">>

\* the gate `final_success_rate < 0.6`, 0.6 written as GateNum / GateDen
GateNum == 6
GateDen == 10

\* `current_duration = 5.0`, in tenths of a second
DefaultDuration == 50

\* width of the zero-padded index in f"segment_{index:05d}{ext}"
IndexWidth == 5

None == "None"

\* ------------------------------------------------------------------------
\* State
\* ------------------------------------------------------------------------
VARIABLES
    \* --- Spec: download_video / extract_video_info ---
    pc,                 \* position of the call of download_video
    video_info,         \* "Pending", None, or "Info"
    failure,            \* why extract_video_info or the session gave up ("none" if not)
    iframe_by,          \* strategy (1..4) that produced iframe_url, 0 = none
    m3u8_by,            \* strategy (1..4) that produced m3u8_url, 0 = none
    iframe_domain,      \* the local variable of line 315: "Unbound" or "Bound"
    subtitle_url,       \* None or "url"; copied into video_info['subtitle_url']
    probes,             \* requests issued by extract_video_info, in order
    result,             \* return value of download_video: "pending", "True", "False"
    \* --- Spec: download_m3u8_segments_advanced, manifest fetch ---
    attempts,           \* manifest requests issued, in order
    success,            \* the local `success`
    \* --- Spec: download_m3u8_segments_advanced, session ---
    segments,           \* index (0..N-1) -> how the entry's URL ends
    segment_durations,  \* index -> declared duration, in tenths of a second
    is_image_based,
    unit,               \* index -> "pending", "ok" or "err": the entry's fetch unit
    successful_files,   \* list of indexes (segment_{index:05d}{ext}) in collection order
    successful_durations,
    failed_count,
    raised,             \* an exception has left the as_completed loop
    temp_exists,        \* output_dir/temp_segments exists
    temp_files,         \* indexes i whose file segment_{i:05d}{ext} exists in it
    merge_calls,        \* assembler invocations, in order
    output_file,        \* "absent", "written" or "partial"
    session_ret,        \* return value of download_m3u8_segments_advanced
    subtitle_downloads, \* number of calls of download_subtitle
    subtitle_ret,       \* what download_subtitle returned ("none" if not called)
    \* --- UnitSpec: one call of download_segment_advanced ---
    unit_index,         \* its index
    req_log,            \* the requests it issued: [profile, outcome], in order
    unit_file,          \* segment_file on disk: "absent", "partial", "empty", "full"
    unit_ret,           \* what it returned (st = "running" until then)
    \* --- GuiSpec: LinkKFGUI and its worker threads ---
    is_downloading,     \* self.is_downloading
    download_stats,     \* self.download_stats: total, completed, failed
    after_queue,        \* download_finished callbacks scheduled with root.after
    worker_pc,          \* worker -> position of its thread
    worker_urls,        \* worker -> len(urls) of its batch
    worker_i,           \* worker -> targets of its batch started so far
    worker_success,     \* worker -> the local `success` of its last target
    worker_read,        \* worker -> the counter value read by its `+= 1`
    pending_files,      \* worker -> indexes its session has still to fetch
    globbed,            \* worker -> what temp_dir.glob gave its `finally`
    stop_requested,     \* worker -> stop was pressed while its batch was running
    \* --- SortSpec: the sort of line 889 ---
    sort_pc,
    sort_in,            \* indexes of the files in collection order
    sort_out,           \* the indexes after the sort
    \* --- the specifications of single functions ---
    fn_pc,              \* which function is studied, and whether it has run
    fn_in,              \* its arguments and what the environment answers
    fn_out              \* what it has produced so far

dvVars == <<pc, video_info, failure, iframe_by, m3u8_by, iframe_domain, subtitle_url,
            probes, result>>
mfVars == <<attempts, success>>
sessVars == <<segments, segment_durations, is_image_based, unit,
              successful_files, successful_durations, failed_count, raised,
              temp_exists, temp_files, merge_calls, output_file, session_ret,
              subtitle_downloads,
                   subtitle_ret>>
sessLocals == <<segments, segment_durations, is_image_based, unit,
                successful_files, successful_durations, failed_count, raised,
                merge_calls, output_file, session_ret, subtitle_downloads,
                   subtitle_ret>>
unitVars == <<unit_index, req_log, unit_file, unit_ret>>
guiVars == <<is_downloading, download_stats, after_queue, worker_pc, worker_urls,
             worker_i, worker_success, worker_read, pending_files, globbed,
             stop_requested>>
sortVars == <<sort_pc, sort_in, sort_out>>

\* what one call of download_video leaves alone
fnVars == <<fn_pc, fn_in, fn_out>>
idleVars == <<unitVars, guiVars, sortVars, fnVars>>

vars == <<dvVars, mfVars, sessVars, unitVars, guiVars, sortVars, fnVars>>

\* ------------------------------------------------------------------------
\* Helpers
\* ------------------------------------------------------------------------
Min(S) == CHOOSE x \in S : \A y \in S : x <= y

\* first strategy of an ordered cascade that hits, 0 if none does
FirstHit(hit) == IF hit = {} THEN 0 ELSE Min(hit)

\* ------------------------------------------------------------------------
\* extract_video_info (lines 67-539), one action per stage.  What the site
\* serves (page content, HTTP outcomes) is the environment's choice, drawn
\* with \E; what the code does with it is the action.
\* ------------------------------------------------------------------------

\* extract_video_info returns None: download_video sees it at line 1190
ReturnNone(why) ==
    /\ video_info' = None
    /\ failure' = why
    /\ pc' = "dv_check_info"

\* lines 78-80: reject an invalid URL before any request
ValidateUrl ==
    /\ pc = "dv_start"
    /\ \E valid \in BOOLEAN :
         IF valid
           THEN /\ pc' = "fetch_page"
                /\ UNCHANGED <<video_info, failure>>
           ELSE ReturnNone("InvalidUrl")
    /\ UNCHANGED <<iframe_by, m3u8_by, iframe_domain, subtitle_url, probes, result>>
    /\ UNCHANGED <<mfVars, sessVars, idleVars>>

\* lines 84-85 (and 532-534): GET the page; a network error, a timeout or a
\* non-2xx status raises requests.RequestException
FetchPage ==
    /\ pc = "fetch_page"
    /\ \E ok \in BOOLEAN :
         IF ok
           THEN /\ pc' = "find_iframe"
                /\ UNCHANGED <<video_info, failure>>
           ELSE ReturnNone("PageFetchError")
    /\ probes' = Append(probes, "GET page")
    /\ UNCHANGED <<iframe_by, m3u8_by, iframe_domain, subtitle_url, result>>
    /\ UNCHANGED <<mfVars, sessVars, idleVars>>

\* lines 124-233: the frame-URL cascade.  `hit` is the set of strategies that
\* would produce a URL on this page: 1 player_post script, 2 <iframe> scan,
\* 3 inline-script regex, 4 constructed candidates (probed with HEAD only
\* when 1-3 produced nothing).
FindIframe ==
    /\ pc = "find_iframe"
    /\ \E hit \in SUBSET (1..4) :
         /\ iframe_by' = FirstHit(hit)
         /\ probes' = IF hit \cap (1..3) = {}
                        THEN Append(probes, "HEAD iframe candidates")
                        ELSE probes
         /\ IF hit = {}
              THEN ReturnNone("ExtractionFailure:iframe")
              ELSE /\ pc' = "data_id"
                   /\ UNCHANGED <<video_info, failure>>
    /\ UNCHANGED <<m3u8_by, iframe_domain, subtitle_url, result>>
    /\ UNCHANGED <<mfVars, sessVars, idleVars>>

\* lines 235-244: the url= parameter of the frame URL
ExtractDataId ==
    /\ pc = "data_id"
    /\ \E has_url_param \in BOOLEAN :
         IF has_url_param
           THEN /\ pc' = "fetch_frame"
                /\ UNCHANGED <<video_info, failure>>
           ELSE ReturnNone("ExtractionFailure:data-id")
    /\ UNCHANGED <<iframe_by, m3u8_by, iframe_domain, subtitle_url, probes, result>>
    /\ UNCHANGED <<mfVars, sessVars, idleVars>>

\* lines 255-256: GET the frame page
FetchFrame ==
    /\ pc = "fetch_frame"
    /\ \E ok \in BOOLEAN :
         IF ok
           THEN /\ pc' = "find_m3u8"
                /\ UNCHANGED <<video_info, failure>>
           ELSE ReturnNone("PageFetchError:frame")
    /\ probes' = Append(probes, "GET frame")
    /\ UNCHANGED <<iframe_by, m3u8_by, iframe_domain, subtitle_url, result>>
    /\ UNCHANGED <<mfVars, sessVars, idleVars>>

\* line 315: iframe_domain is assigned inside `if not m3u8_url:` (line 308),
\* that is only when strategies 1-3 found no manifest URL
BindIframeDomain(hit) ==
    IF hit \cap (1..3) = {} THEN "Bound" ELSE iframe_domain

\* lines 260-425: the manifest-URL cascade.  1 first <source>, 2 <video>
\* sources, 3 script regex, 4 constructed candidates (HEAD probes).
FindM3u8 ==
    /\ pc = "find_m3u8"
    /\ \E hit \in SUBSET (1..4) :
         /\ m3u8_by' = FirstHit(hit)
         /\ iframe_domain' = BindIframeDomain(hit)
         /\ probes' = IF hit \cap (1..3) = {}
                        THEN Append(probes, "HEAD m3u8 candidates")
                        ELSE probes
         /\ IF hit = {}
              THEN ReturnNone("ExtractionFailure:m3u8")
              ELSE /\ pc' = "track"
                   /\ UNCHANGED <<video_info, failure>>
    /\ UNCHANGED <<iframe_by, subtitle_url, result>>
    /\ UNCHANGED <<mfVars, sessVars, idleVars>>

\* lines 443-457: the <track> element; an exception inside is caught (456)
TrackLookup ==
    /\ pc = "track"
    /\ \E track \in {"src", "absent", "error"} :
         /\ subtitle_url' = IF track = "src" THEN "url" ELSE None
         /\ pc' = IF track = "src" THEN "info" ELSE "subtitle_fallback"
    /\ UNCHANGED <<video_info, failure, iframe_by, m3u8_by, iframe_domain, probes, result>>
    /\ UNCHANGED <<mfVars, sessVars, idleVars>>

\* line 466: `if 'myani.app' in iframe_domain:` reads the local; unbound, the
\* read raises UnboundLocalError
ReadIframeDomain == iframe_domain

\* lines 459-506: the candidate subtitle URLs, chosen by iframe_domain.  The
\* UnboundLocalError is outside every inner try: only the handler of lines
\* 535-539 catches it and extract_video_info returns None.  Each probe
\* (497-506) answers 200, another status, or raises, which is caught.
SubtitleFallback ==
    /\ pc = "subtitle_fallback"
    /\ IF ReadIframeDomain = "Unbound"
         THEN /\ ReturnNone("UnboundLocalError:iframe_domain")
              /\ UNCHANGED <<subtitle_url, probes>>
         ELSE /\ \E found \in BOOLEAN :
                   subtitle_url' = IF found THEN "url" ELSE None
              /\ probes' = Append(probes, "HEAD subtitle candidates")
              /\ pc' = "info"
              /\ UNCHANGED <<video_info, failure>>
    /\ UNCHANGED <<iframe_by, m3u8_by, iframe_domain, result>>
    /\ UNCHANGED <<mfVars, sessVars, idleVars>>

\* lines 508-530: build and return video_info
ReturnInfo ==
    /\ pc = "info"
    /\ video_info' = "Info"
    /\ pc' = "dv_check_info"
    /\ UNCHANGED <<failure, iframe_by, m3u8_by, iframe_domain, subtitle_url, probes, result>>
    /\ UNCHANGED <<mfVars, sessVars, idleVars>>

\* download_video without the test of line 1190: the variant C9 is tested against
InfoNeverMissing == FALSE

\* line 1190: `if not video_info:`
InfoMissing == video_info = None

\* download_video, lines 1189-1199.  The locals of extract_video_info are gone
\* with its frame; video_info (with its subtitle_url) is what remains.
CheckInfo ==
    /\ pc = "dv_check_info"
    /\ IF InfoMissing
         THEN /\ result' = "False"
              /\ pc' = "dv_done"
         ELSE /\ result' = result
              /\ pc' = "m3u8_primary"
    /\ iframe_by' = 0
    /\ m3u8_by' = 0
    /\ iframe_domain' = "Unbound"
    /\ probes' = << >>
    /\ UNCHANGED <<video_info, failure, subtitle_url>>
    /\ UNCHANGED <<mfVars, sessVars, idleVars>>

\* ------------------------------------------------------------------------
\* download_m3u8_segments_advanced, manifest fetch (lines 612-717)
\* ------------------------------------------------------------------------

\* A response body: a text of at most MaxBodyLen pieces, each a blank or one
\* of the words detect_content_type looks for, as the server spelled it, or a
\* playlist tag that is none of them.
BodyTokens == {" ", "#EXTM3U", "#extm3u", "<!DOCTYPE html", "<html", "<HTML",
               "Cloudflare", "google.com", "#EXTINF"}
Bodies == UNION {[1..n -> BodyTokens] : n \in 0..MaxBodyLen}

\* str.lower
lower(tok) ==
    CASE tok = "#EXTM3U" -> "#extm3u"
      [] tok = "<!DOCTYPE html" -> "<!doctype html"
      [] tok = "<HTML" -> "<html"
      [] tok = "Cloudflare" -> "cloudflare"
      [] tok = "#EXTINF" -> "#extinf"
      [] OTHER -> tok

RECURSIVE lstrip(_)
lstrip(text) ==
    IF text # << >> /\ Head(text) = " " THEN lstrip(Tail(text)) ELSE text

RECURSIVE rstrip(_)
rstrip(text) ==
    IF text # << >> /\ text[Len(text)] = " "
      THEN rstrip(SubSeq(text, 1, Len(text) - 1)) ELSE text

\* str.strip
strip(text) == rstrip(lstrip(text))

\* line 614: content.lower().strip()
content_lower(content) == strip([k \in 1..Len(content) |-> lower(content[k])])

\* str.startswith and the `in` of line 620
startswith(text, word) == text # << >> /\ text[1] = word
contains(text, word) == \E k \in 1..Len(text) : text[k] = word

\* what session.get does: raise, or answer with a status and a body
Responses == [raised : BOOLEAN, status : {200, 403}, body : Bodies]

\* lines 612-623
\* detect_content_type with the block-page test first: the variant C17 is
\* tested against
BlockedBeforeMarker(content) ==
    LET text == content_lower(content) IN
    IF contains(text, "google.com") \/ contains(text, "cloudflare") THEN "BLOCKED"
    ELSE IF startswith(text, "#extm3u") THEN "M3U8"
    ELSE IF startswith(text, "<!doctype html") \/ startswith(text, "<html") THEN "HTML"
    ELSE "UNKNOWN"

detect_content_type(content) ==
    LET text == content_lower(content) IN
    IF startswith(text, "#extm3u") THEN "M3U8"
    ELSE IF startswith(text, "<!doctype html") \/ startswith(text, "<html") THEN "HTML"
    ELSE IF contains(text, "google.com") \/ contains(text, "cloudflare") THEN "BLOCKED"
    ELSE "UNKNOWN"

\* lines 646-648 and 697-699: the body is classified only when the request
\* did not raise and the status is 200
Classified(resp) ==
    IF resp.raised \/ resp.status # 200 THEN "none"
    ELSE detect_content_type(resp.body)

\* lines 652-657 and 699-704: the attempt sets success and breaks
Accepts(resp) == Classified(resp) = "M3U8"

PrimaryAttempts == SelectSeq(attempts, LAMBDA a : a.pass = "profiles")
SecondaryAttempts == SelectSeq(attempts, LAMBDA a : a.pass = "countries")

\* lines 630-667: Method 1, one iteration of `for i, profile in
\* enumerate(browser_profiles)`
PrimaryAttempt ==
    /\ pc = "m3u8_primary"
    /\ LET i == Len(PrimaryAttempts) + 1 IN
       \E resp \in Responses :
         /\ attempts' = Append(attempts,
                [pass |-> "profiles", profile |-> browser_profiles[i],
                 country |-> None, manifest |-> Accepts(resp)])
         /\ success' = (success \/ Accepts(resp))
         /\ pc' = IF Accepts(resp) \/ i = Len(browser_profiles)
                    THEN "m3u8_after_primary" ELSE "m3u8_primary"
    /\ UNCHANGED <<video_info, failure, iframe_by, m3u8_by, iframe_domain, subtitle_url,
                   probes, result>>
    /\ UNCHANGED <<sessVars, idleVars>>

\* Method 2 without its guard: the variant C6 is tested against
SecondaryPassAlways == TRUE

\* line 670: `if not success:` guards Method 2
SecondaryPassRuns == ~success

AfterPrimary ==
    /\ pc = "m3u8_after_primary"
    /\ pc' = IF SecondaryPassRuns THEN "m3u8_secondary" ELSE "m3u8_check"
    /\ UNCHANGED <<video_info, failure, iframe_by, m3u8_by, iframe_domain, subtitle_url,
                   probes, result>>
    /\ UNCHANGED <<mfVars, sessVars, idleVars>>

\* lines 674-710: Method 2, one iteration of `for country in countries`, always
\* with browser_profiles[0]
SecondaryAttempt ==
    /\ pc = "m3u8_secondary"
    /\ LET k == Len(SecondaryAttempts) + 1 IN
       \E resp \in Responses :
         /\ attempts' = Append(attempts,
                [pass |-> "countries", profile |-> browser_profiles[1],
                 country |-> countries[k], manifest |-> Accepts(resp)])
         /\ success' = (success \/ Accepts(resp))
         /\ pc' = IF Accepts(resp) \/ k = Len(countries)
                    THEN "m3u8_check" ELSE "m3u8_secondary"
    /\ UNCHANGED <<video_info, failure, iframe_by, m3u8_by, iframe_domain, subtitle_url,
                   probes, result>>
    /\ UNCHANGED <<sessVars, idleVars>>

\* the session without the test of line 712: the variant C7 is tested against
ManifestNeverUnavailable == FALSE

\* line 712: `if not success:` returns False
ManifestUnavailable == ~success

\* lines 712-717.  The log of the manifest requests is closed here: the
\* stages that follow issue none.
ManifestCheck ==
    /\ pc = "m3u8_check"
    /\ IF ManifestUnavailable
         THEN /\ session_ret' = "False"
              /\ failure' = "ManifestUnavailable"
              /\ pc' = "dv_after_download"
         ELSE /\ pc' = "parse"
              /\ UNCHANGED <<session_ret, failure>>
    /\ attempts' = << >>
    /\ UNCHANGED success
    /\ UNCHANGED <<video_info, iframe_by, m3u8_by, iframe_domain, subtitle_url, probes, result>>
    /\ UNCHANGED <<segments, segment_durations, is_image_based, unit,
                   successful_files, successful_durations, failed_count, raised,
                   temp_exists, temp_files, merge_calls, output_file, subtitle_downloads,
                   subtitle_ret>>
    /\ UNCHANGED idleVars

\* ------------------------------------------------------------------------
\* Segment entries and the names of their local files
\* ------------------------------------------------------------------------

\* duration declared for entry i in the sampled manifests, tenths of a second
SampleDuration(i) == 40 + i

\* the sampled manifests: n entries, the first URL ending (lower-cased) in
\* `first`, the others in `rest`
ManifestShapes ==
    {[n |-> 0, first |-> ".ts", rest |-> ".ts"]} \cup
    {[n |-> n, first |-> e[1], rest |-> e[2]] :
        n \in 1..MaxSegs,
        e \in {<<".ts", ".ts">>, <<".jpeg", ".png">>, <<".jpeg", ".ts">>}}

SegmentsOf(shape) ==
    [i \in 0..(shape.n - 1) |-> IF i = 0 THEN shape.first ELSE shape.rest]

NumSegments == Cardinality(DOMAIN segments)

\* a mode detection that knows '.jpg' only: the variant C25 is tested against
IsJpgUrl(ending) == ending = ".jpg"

\* lines 764-768: the mode is read off segments[0]
IsImageUrl(ending) == ending \in {".jpg", ".png", ".jpeg"}

\* lines 789-795: extension of the local file
ExtOf(ending) ==
    IF ending \in {".jpg", ".jpeg"} THEN ".jpg"
    ELSE IF ending = ".png" THEN ".png"
    ELSE ".ts"

\* the characters of a file name, as code points
DigitCode == [d \in 0..9 |-> 48 + d]
Prefix == <<115, 101, 103, 109, 101, 110, 116, 95>>      \* "segment_"
ExtCodes(ext) ==
    CASE ext = ".ts" -> <<46, 116, 115>>
      [] ext = ".jpg" -> <<46, 106, 112, 103>>
      [] ext = ".png" -> <<46, 112, 110, 103>>

\* the decimal digits of n
RECURSIVE Decimal(_)
Decimal(n) == IF n < 10 THEN <<n>> ELSE Append(Decimal(n \div 10), n % 10)

\* format(n, '05d'): zero-padded to at least `width` digits, never cut
RECURSIVE ZeroPad(_, _)
ZeroPad(ds, width) == IF Len(ds) >= width THEN ds ELSE ZeroPad(<<0>> \o ds, width)

\* line 797: f"segment_{index:05d}{ext}"
SegmentName(index, ext) ==
    LET ds == ZeroPad(Decimal(index), IndexWidth) IN
    Prefix \o [k \in 1..Len(ds) |-> DigitCode[ds[k]]] \o ExtCodes(ext)

\* ------------------------------------------------------------------------
\* download_segment_advanced (lines 786-842), the fetch unit of one entry
\* ------------------------------------------------------------------------

\* the loop over the whole catalog: the variant C8 is tested against
AllProfiles == browser_profiles

\* line 800: `for profile in browser_profiles[:3]`
SegmentProfiles == SubSeq(browser_profiles, 1, 3)

\* What one request of a fetch unit can come to (lines 807-840):
\*   "error"         session.get or raise_for_status raises
\*   "html"          the content-type contains 'html' (line 820)
\*   "stream_error"  the file is opened, then iter_content raises
\*   "empty"         the body has no bytes: the file is written empty
\*   "written"       the body is written to the file
Outcomes == {"error", "html", "stream_error", "empty", "written"}

\* lines 825-828: open(segment_file, 'wb') truncates, the chunks are written
FileAfter(o, file) ==
    CASE o \in {"error", "html"} -> file
      [] o = "stream_error" -> "partial"
      [] o = "empty" -> "empty"
      [] o = "written" -> "full"

\* line 831 is reached when the write ended without an exception, and passes
\* when segment_file.exists() and segment_file.stat().st_size > 0
ReturnsFile(o, file) ==
    /\ o \in {"empty", "written"}
    /\ file \in {"partial", "full"}

\* lines 800-842: the loop over the profiles from the k-th on, outs[k] being
\* what the k-th request comes to: how many requests are issued, whether the
\* unit returns its file, and the file left on disk
RECURSIVE TryProfiles(_, _, _, _)
TryProfiles(profiles, outs, k, file) ==
    IF k > Len(profiles)
      THEN [st |-> "err", tries |-> Len(profiles), file |-> file]         \* line 842
    ELSE IF ReturnsFile(outs[k], FileAfter(outs[k], file))
      THEN [st |-> "ok", tries |-> k, file |-> FileAfter(outs[k], file)]  \* line 832
    ELSE TryProfiles(profiles, outs, k + 1, FileAfter(outs[k], file))     \* continue

\* --- UnitSpec: the same loop, one request per step ---

Running == [st |-> "running", path |-> << >>, duration |-> 0]

\* one iteration of the loop of line 800; line 832 returns
\* (segment_file, segment_durations[index], None)
UnitRequest ==
    /\ unit_ret.st = "running"
    /\ Len(req_log) < Len(SegmentProfiles)
    /\ \E o \in Outcomes :
         /\ req_log' = Append(req_log,
                [profile |-> SegmentProfiles[Len(req_log) + 1], outcome |-> o])
         /\ unit_file' = FileAfter(o, unit_file)
         /\ unit_ret' =
              IF ReturnsFile(o, unit_file')
                THEN [st |-> "file",
                      path |-> SegmentName(unit_index, ExtOf(segments[unit_index])),
                      duration |-> segment_durations[unit_index]]
                ELSE Running
    /\ UNCHANGED unit_index
    /\ UNCHANGED <<dvVars, mfVars, sessVars, guiVars, sortVars, fnVars>>

\* line 842: the loop is exhausted, return (None, 0, "All profiles failed ...")
UnitGiveUp ==
    /\ unit_ret.st = "running"
    /\ Len(req_log) = Len(SegmentProfiles)
    /\ unit_ret' = [st |-> "error", path |-> << >>, duration |-> 0]
    /\ UNCHANGED <<unit_index, req_log, unit_file>>
    /\ UNCHANGED <<dvVars, mfVars, sessVars, guiVars, sortVars, fnVars>>

\* ------------------------------------------------------------------------
\* download_m3u8_segments_advanced, the session (lines 719-913)
\* ------------------------------------------------------------------------

\* a session that goes on with an empty list: the variant C37 is tested
\* against
SegmentsNeverEmpty(segs) == FALSE

\* line 758: `if not segments:`
SegmentsEmpty(segs) == DOMAIN segs = {}

\* lines 719-778: parse the playlist, detect the mode, create temp_segments.
\* The playlist is the environment's.
ParseAndMkdir ==
    /\ pc = "parse"
    /\ \E shape \in ManifestShapes :
         /\ segments' = SegmentsOf(shape)
         /\ segment_durations' = [i \in 0..(shape.n - 1) |-> SampleDuration(i)]
         /\ IF SegmentsEmpty(SegmentsOf(shape))
              THEN \* lines 758-761
                   /\ session_ret' = "False"
                   /\ failure' = "NoSegments"
                   /\ pc' = "dv_after_download"
                   /\ UNCHANGED <<is_image_based, temp_exists, unit>>
              ELSE /\ is_image_based' = IsImageUrl(shape.first)
                   /\ temp_exists' = TRUE
                   /\ unit' = [i \in 0..(shape.n - 1) |-> "pending"]
                   /\ pc' = "pool"
                   /\ UNCHANGED <<session_ret, failure>>
    /\ UNCHANGED <<video_info, iframe_by, m3u8_by, iframe_domain, subtitle_url, probes, result>>
    /\ UNCHANGED <<mfVars, idleVars>>
    /\ UNCHANGED <<successful_files, successful_durations, failed_count, raised,
                   temp_files, merge_calls, output_file, subtitle_downloads,
                   subtitle_ret>>

\* every way a fetch unit can end: what it returns and the file it leaves
UnitResults ==
    {[st |-> r.st, file |-> r.file] :
        r \in {TryProfiles(SegmentProfiles, outs, 1, "absent") :
                  outs \in [1..Len(SegmentProfiles) -> Outcomes]}}

\* One fetch unit runs to its return (lines 786-842) and the as_completed
\* loop takes its future (lines 853-862).  The units write disjoint files and
\* the loop body touches only locals of the main thread, so the two are taken
\* as one step; the order of these steps is the order in which as_completed
\* yields.  After Raise the loop is gone and the unit's result is dropped.
RunUnit(i) ==
    /\ pc = "pool"
    /\ unit[i] = "pending"
    /\ \E r \in UnitResults :
         /\ unit' = [unit EXCEPT ![i] = r.st]
         /\ temp_files' = IF r.file # "absent" THEN temp_files \cup {i} ELSE temp_files
         /\ IF raised
              THEN UNCHANGED <<successful_files, successful_durations, failed_count>>
              ELSE IF r.st = "ok"
              THEN /\ successful_files' = Append(successful_files, i)
                   /\ successful_durations' =
                        Append(successful_durations, segment_durations[i])
                   /\ UNCHANGED failed_count
              ELSE /\ failed_count' = failed_count + 1
                   /\ UNCHANGED <<successful_files, successful_durations>>
    /\ UNCHANGED <<dvVars, mfVars, idleVars>>
    /\ UNCHANGED <<segments, segment_durations, is_image_based, raised,
                   temp_exists, merge_calls, output_file, session_ret, subtitle_downloads,
                   subtitle_ret>>

\* an exception inside the as_completed loop (lines 853-871) leaves the try
\* block; the `with` of line 847 still waits for every submitted unit
Raise ==
    /\ pc = "pool"
    /\ ~raised
    /\ \E i \in DOMAIN unit : unit[i] = "pending"
    /\ raised' = TRUE
    /\ UNCHANGED <<dvVars, mfVars, idleVars>>
    /\ UNCHANGED <<segments, segment_durations, is_image_based, unit,
                   successful_files, successful_durations, failed_count,
                   temp_exists, temp_files, merge_calls, output_file, session_ret,
                   subtitle_downloads,
                   subtitle_ret>>

\* the gate with `<=` in place of `<`: the variant C1 is tested against
BelowGateInclusive(s, n) == s * GateDen <= GateNum * n

\* lines 876-879: final_success_rate = len(successful_files) / len(segments),
\* compared with 0.6.  The quotient of two integers below 2^53 rounds to the
\* double nearest s/n and 0.6 is the double nearest 6/10, so the comparison
\* of the doubles is the comparison of the fractions.
BelowGate(s, n) == s * GateDen < GateNum * n

\* str.__lt__: the first differing code point decides, a proper prefix is smaller
StrLess(a, b) ==
    \E k \in 1..(Len(a) + 1) :
      /\ \A j \in 1..(k - 1) : j <= Len(b) /\ a[j] = b[j]
      /\ IF k > Len(a) THEN Len(b) >= k
         ELSE k <= Len(b) /\ a[k] < b[k]

\* line 889: file_duration_pairs.sort(key=lambda x: x[0].name); a pair is
\* [index, ext, duration], its file segment_{index:05d}{ext}
SortByName(pairs) ==
    SortSeq(pairs, LAMBDA x, y :
        StrLess(SegmentName(x.index, x.ext), SegmentName(y.index, y.ext)))

\* files paired with the durations of the first entries of the manifest, not
\* with the ones collected with them: the variant C32 is tested against
PairsByPosition ==
    [k \in 1..Len(successful_files) |->
        [index |-> successful_files[k],
         ext |-> ExtOf(segments[successful_files[k]]),
         duration |-> segment_durations[k - 1]]]

\* line 888: zip(successful_files, successful_durations)
FileDurationPairs ==
    [k \in 1..Len(successful_files) |->
        [index |-> successful_files[k],
         ext |-> ExtOf(segments[successful_files[k]]),
         duration |-> successful_durations[k]]]

\* a pool that never reports its units done: the variant C24 is tested against
NeverAllReturned == FALSE

\* lines 847-853: the `with` block and as_completed end when every submitted
\* unit has returned
AllReturned == \A i \in DOMAIN unit : unit[i] # "pending"

\* what the external tool does: exit code 0, a non-zero code, a timeout, or
\* it is missing; _merge_segments_with_ffmpeg (lines 990-1010) and
\* _merge_images_to_video (lines 1116-1132) turn each into a boolean
ToolOutcomes == {"exit 0", "exit 1", "timeout", "missing"}

\* lines 875-898: the gate, the sort, and the call of the assembler
\* lines 959-960 and 1087-1089: the tool is run with '-y' on output_file.  What
\* is at that path afterwards: the whole video after exit code 0, what was
\* there before when the tool could not be started, and after a non-zero exit
\* code or the kill at the timeout either what was there before or the part
\* the tool had written
ToolLeaves(tool, was, whole, part) ==
    IF tool = "exit 0" THEN {whole}
    ELSE IF tool = "missing" THEN {was}
    ELSE {was, part}

GateAndMerge ==
    /\ pc = "pool"
    /\ ~raised
    /\ AllReturned
    /\ IF BelowGate(Len(successful_files), NumSegments)
         THEN /\ session_ret' = "False"
              /\ failure' = "InsufficientSuccessRatio"
              /\ UNCHANGED <<successful_files, successful_durations, merge_calls, output_file>>
         ELSE IF successful_files = << >>
         THEN /\ session_ret' = "False"
              /\ failure' = "NoSuccess"
              /\ UNCHANGED <<successful_files, successful_durations, merge_calls, output_file>>
         ELSE LET sorted == SortByName(FileDurationPairs) IN
              /\ successful_files' = [k \in 1..Len(sorted) |-> sorted[k].index]
              /\ successful_durations' = [k \in 1..Len(sorted) |-> sorted[k].duration]
              /\ \E tool \in ToolOutcomes :
                   /\ merge_calls' = Append(merge_calls,
                          [mode |-> IF is_image_based THEN "images" ELSE "media",
                           files |-> successful_files',
                           durations |-> successful_durations'])
                   /\ session_ret' = IF tool = "exit 0" THEN "True" ELSE "False"
                   /\ output_file' \in ToolLeaves(tool, output_file, "written", "partial")
                   /\ failure' = IF tool = "exit 0" THEN failure ELSE "AssemblyFailure"
    /\ pc' = "finally"
    /\ UNCHANGED <<video_info, iframe_by, m3u8_by, iframe_domain, subtitle_url, probes, result>>
    /\ UNCHANGED <<mfVars, idleVars>>
    /\ UNCHANGED <<segments, segment_durations, is_image_based, unit, failed_count, raised,
                   temp_exists, temp_files, subtitle_downloads,
                   subtitle_ret>>

\* the exception of Raise reaches `finally` once the pool has drained
RaiseToFinally ==
    /\ pc = "pool"
    /\ raised
    /\ AllReturned
    /\ pc' = "finally"
    /\ UNCHANGED <<video_info, failure, iframe_by, m3u8_by, iframe_domain, subtitle_url,
                   probes, result>>
    /\ UNCHANGED <<mfVars, sessVars, idleVars>>

\* line 903: temp_dir.glob("segment_*.*") matches every segment_{i:05d}{ext}
GlobSegments(files) == files

\* lines 900-913: unlink what the glob matches, rmdir (which needs the
\* directory empty; its failure is only warned about), and return; an
\* exception that left the try block is turned into False at line 913
Finally ==
    /\ pc = "finally"
    /\ temp_files' = temp_files \ GlobSegments(temp_files)
    /\ temp_exists' = (temp_files' # {})
    /\ IF raised
         THEN /\ session_ret' = "False"
              /\ failure' = "Exception"
         ELSE UNCHANGED <<session_ret, failure>>
    /\ pc' = "dv_after_download"
    /\ UNCHANGED <<video_info, iframe_by, m3u8_by, iframe_domain, subtitle_url, probes, result>>
    /\ UNCHANGED <<mfVars, idleVars>>
    /\ UNCHANGED <<segments, segment_durations, is_image_based, unit,
                   successful_files, successful_durations, failed_count, raised,
                   merge_calls, output_file, subtitle_downloads,
                   subtitle_ret>>

\* line 1209: `if success and video_info.get('subtitle_url'):`
SubtitleAttempted == session_ret = "True" /\ subtitle_url # None

\* download_video returning False when the subtitle download failed: the
\* variant C11 is tested against
ResultNeedsSubtitle(ret, sub) == IF sub = "False" THEN "False" ELSE ret

\* line 1223: `return success`; the value of download_subtitle is dropped
ResultOf(ret, sub) == ret

\* download_video, lines 1208-1223: the subtitle download and the return
\* value.  download_subtitle (1145-1172) returns True after writing the .vtt
\* file and False after any exception (request, status, write).
Finish ==
    /\ pc = "dv_after_download"
    /\ IF SubtitleAttempted
         THEN /\ subtitle_downloads' = subtitle_downloads + 1
              /\ \E fetched \in BOOLEAN :
                   subtitle_ret' = IF fetched THEN "True" ELSE "False"
         ELSE UNCHANGED <<subtitle_downloads, subtitle_ret>>
    /\ result' = ResultOf(session_ret, subtitle_ret')
    /\ pc' = "dv_done"
    /\ UNCHANGED <<video_info, failure, iframe_by, m3u8_by, iframe_domain, subtitle_url, probes>>
    /\ UNCHANGED <<mfVars, idleVars>>
    /\ UNCHANGED <<segments, segment_durations, is_image_based, unit,
                   successful_files, successful_durations, failed_count, raised,
                   temp_exists, temp_files, merge_calls, output_file, session_ret>>

\* ------------------------------------------------------------------------
\* LinkKFGUI (src/linkkf_gui.py): the Tk main thread and the worker threads.
\* A worker runs download_worker; its targets are download sessions on the
\* one directory output_dir/temp_segments (temp_exists, temp_files), whose
\* files are named by segment index alone.
\* ------------------------------------------------------------------------
guiOther == <<dvVars, mfVars, sessLocals, unitVars, sortVars, fnVars>>

\* positions of a worker inside download_with_logging
InFlightPcs == {"resolve", "pool", "unlink"}

InFlight == {w \in Workers : worker_pc[w] \in InFlightPcs}

Spawned == {w \in Workers : worker_pc[w] # "unborn"}

\* start_download, lines 640-681: returns at once while is_downloading;
\* otherwise sets the flag and starts a daemon thread on the batch
StartDownload ==
    /\ ~is_downloading
    /\ Cardinality(Spawned) < MaxBatches
    /\ LET w == Cardinality(Spawned) + 1 IN
       \E n \in 1..MaxUrls :
         /\ worker_pc' = [worker_pc EXCEPT ![w] = "init"]
         /\ worker_urls' = [worker_urls EXCEPT ![w] = n]
    /\ is_downloading' = TRUE
    /\ UNCHANGED <<download_stats, after_queue, worker_i, worker_success, worker_read,
                   pending_files, globbed, stop_requested, temp_exists, temp_files>>
    /\ UNCHANGED guiOther

\* stop_download, lines 683-690: clears the flag and calls download_finished
\* (692-716), which clears it again and enables the start button
StopDownload ==
    /\ is_downloading
    /\ is_downloading' = FALSE
    /\ stop_requested' =
         [w \in Workers |-> stop_requested[w] \/ worker_pc[w] \notin {"unborn", "dead"}]
    /\ UNCHANGED <<download_stats, after_queue, worker_pc, worker_urls, worker_i,
                   worker_success, worker_read, pending_files, globbed,
                   temp_exists, temp_files>>
    /\ UNCHANGED guiOther

\* download_finished run by the main loop for a root.after(0, ...) of line 584
DownloadFinished ==
    /\ after_queue > 0
    /\ after_queue' = after_queue - 1
    /\ is_downloading' = FALSE
    /\ UNCHANGED <<download_stats, worker_pc, worker_urls, worker_i, worker_success,
                   worker_read, pending_files, globbed, stop_requested,
                   temp_exists, temp_files>>
    /\ UNCHANGED guiOther

\* download_worker, line 544: self.download_stats['total'] = len(urls)
WorkerInit(w) ==
    /\ worker_pc[w] = "init"
    /\ download_stats' = [download_stats EXCEPT !.total = worker_urls[w]]
    /\ worker_pc' = [worker_pc EXCEPT ![w] = "init_completed"]
    /\ UNCHANGED <<is_downloading, after_queue, worker_urls, worker_i, worker_success,
                   worker_read, pending_files, globbed, stop_requested,
                   temp_exists, temp_files>>
    /\ UNCHANGED guiOther

\* line 545: self.download_stats['completed'] = 0
WorkerInitCompleted(w) ==
    /\ worker_pc[w] = "init_completed"
    /\ download_stats' = [download_stats EXCEPT !.completed = 0]
    /\ worker_pc' = [worker_pc EXCEPT ![w] = "init_failed"]
    /\ UNCHANGED <<is_downloading, after_queue, worker_urls, worker_i, worker_success,
                   worker_read, pending_files, globbed, stop_requested,
                   temp_exists, temp_files>>
    /\ UNCHANGED guiOther

\* line 546: self.download_stats['failed'] = 0
WorkerInitFailed(w) ==
    /\ worker_pc[w] = "init_failed"
    /\ download_stats' = [download_stats EXCEPT !.failed = 0]
    /\ worker_pc' = [worker_pc EXCEPT ![w] = "loop"]
    /\ UNCHANGED <<is_downloading, after_queue, worker_urls, worker_i, worker_success,
                   worker_read, pending_files, globbed, stop_requested,
                   temp_exists, temp_files>>
    /\ UNCHANGED guiOther

\* lines 548-550: the head of `for i, url in enumerate(urls, 1)` and the test
\* `if not self.is_downloading: break`
\* (the test and the start of the target are one step: a stop that falls
\* between the two is not counted against the worker)
WorkerLoop(w) ==
    /\ worker_pc[w] = "loop"
    /\ IF worker_i[w] = worker_urls[w] \/ ~is_downloading
         THEN /\ worker_pc' = [worker_pc EXCEPT ![w] = "exit"]
              /\ UNCHANGED worker_i
         ELSE /\ worker_pc' = [worker_pc EXCEPT ![w] = "resolve"]
              /\ worker_i' = [worker_i EXCEPT ![w] = @ + 1]
    /\ UNCHANGED <<is_downloading, download_stats, after_queue, worker_urls,
                   worker_success, worker_read, pending_files, globbed, stop_requested,
                   temp_exists, temp_files>>
    /\ UNCHANGED guiOther

\* download_video up to temp_dir.mkdir(exist_ok=True) (downloader lines
\* 1189-1190 and 612-778): the resolution and the manifest fetch fail, or the
\* session creates (or finds) temp_segments and submits its fetch units
WorkerResolve(w) ==
    /\ worker_pc[w] = "resolve"
    /\ \E ok \in BOOLEAN :
         IF ok
           THEN /\ temp_exists' = TRUE
                /\ \E n \in 1..MaxGuiSegs :
                     pending_files' = [pending_files EXCEPT ![w] = 0..(n - 1)]
                /\ worker_pc' = [worker_pc EXCEPT ![w] = "pool"]
                /\ UNCHANGED worker_success
           ELSE /\ worker_success' = [worker_success EXCEPT ![w] = FALSE]
                /\ worker_pc' = [worker_pc EXCEPT ![w] = "count"]
                /\ UNCHANGED <<temp_exists, pending_files>>
    /\ UNCHANGED <<is_downloading, download_stats, after_queue, worker_urls, worker_i,
                   worker_read, globbed, stop_requested, temp_files>>
    /\ UNCHANGED guiOther

\* a fetch unit of the session (downloader lines 786-842): open(segment_file,
\* 'wb') creates the file if the directory is there and raises if it is not
WorkerFetch(w) ==
    /\ worker_pc[w] = "pool"
    /\ \E i \in pending_files[w] :
         /\ pending_files' = [pending_files EXCEPT ![w] = @ \ {i}]
         /\ \E opened \in BOOLEAN :
              temp_files' = IF opened /\ temp_exists THEN temp_files \cup {i}
                            ELSE temp_files
    /\ UNCHANGED <<is_downloading, download_stats, after_queue, worker_pc, worker_urls,
                   worker_i, worker_success, worker_read, globbed, stop_requested,
                   temp_exists>>
    /\ UNCHANGED guiOther

\* downloader lines 875-903: every unit has returned; the gate and the merge
\* decide the session's result, and `finally` lists the directory
WorkerGate(w) ==
    /\ worker_pc[w] = "pool"
    /\ pending_files[w] = {}
    /\ \E ok \in BOOLEAN :
         worker_success' = [worker_success EXCEPT ![w] = ok]
    /\ globbed' = [globbed EXCEPT ![w] = IF temp_exists THEN temp_files ELSE {}]
    /\ worker_pc' = [worker_pc EXCEPT ![w] = "unlink"]
    /\ UNCHANGED <<is_downloading, download_stats, after_queue, worker_urls, worker_i,
                   worker_read, pending_files, stop_requested, temp_exists, temp_files>>
    /\ UNCHANGED guiOther

\* downloader lines 903-907: file.unlink() for a listed file; it raises if
\* the file is gone, and the handler of line 906 abandons the cleanup
WorkerUnlink(w) ==
    /\ worker_pc[w] = "unlink"
    /\ \E f \in globbed[w] :
         IF f \in temp_files
           THEN /\ temp_files' = temp_files \ {f}
                /\ globbed' = [globbed EXCEPT ![w] = @ \ {f}]
                /\ UNCHANGED worker_pc
           ELSE /\ globbed' = [globbed EXCEPT ![w] = {}]
                /\ worker_pc' = [worker_pc EXCEPT ![w] = "count"]
                /\ UNCHANGED temp_files
    /\ UNCHANGED <<is_downloading, download_stats, after_queue, worker_urls, worker_i,
                   worker_success, worker_read, pending_files, stop_requested, temp_exists>>
    /\ UNCHANGED guiOther

\* downloader lines 905-907: temp_dir.rmdir() removes an existing, empty
\* directory and raises otherwise (warned about only); the session returns
WorkerRmdir(w) ==
    /\ worker_pc[w] = "unlink"
    /\ globbed[w] = {}
    /\ temp_exists' = (temp_exists /\ temp_files # {})
    /\ worker_pc' = [worker_pc EXCEPT ![w] = "count"]
    /\ UNCHANGED <<is_downloading, download_stats, after_queue, worker_urls, worker_i,
                   worker_success, worker_read, pending_files, globbed, stop_requested,
                   temp_files>>
    /\ UNCHANGED guiOther

\* the counter that lines 568 and 571 increment
CounterOf(ok) == IF ok THEN "completed" ELSE "failed"

\* lines 567-572: `self.download_stats[...] += 1` reads the counter ...
WorkerCountRead(w) ==
    /\ worker_pc[w] = "count"
    /\ worker_read' = [worker_read EXCEPT ![w] = download_stats[CounterOf(worker_success[w])]]
    /\ worker_pc' = [worker_pc EXCEPT ![w] = "count_write"]
    /\ UNCHANGED <<is_downloading, download_stats, after_queue, worker_urls, worker_i,
                   worker_success, pending_files, globbed, stop_requested,
                   temp_exists, temp_files>>
    /\ UNCHANGED guiOther

\* ... and stores the value read plus one
WorkerCountWrite(w) ==
    /\ worker_pc[w] = "count_write"
    /\ download_stats' =
         [download_stats EXCEPT ![CounterOf(worker_success[w])] = worker_read[w] + 1]
    /\ worker_pc' = [worker_pc EXCEPT ![w] = "loop"]
    /\ UNCHANGED <<is_downloading, after_queue, worker_urls, worker_i, worker_success,
                   worker_read, pending_files, globbed, stop_requested,
                   temp_exists, temp_files>>
    /\ UNCHANGED guiOther

\* lines 583-584: the loop is left; download_finished is scheduled
WorkerExit(w) ==
    /\ worker_pc[w] = "exit"
    /\ after_queue' = after_queue + 1
    /\ worker_pc' = [worker_pc EXCEPT ![w] = "dead"]
    /\ UNCHANGED <<is_downloading, download_stats, worker_urls, worker_i, worker_success,
                   worker_read, pending_files, globbed, stop_requested,
                   temp_exists, temp_files>>
    /\ UNCHANGED guiOther

\* ------------------------------------------------------------------------
\* SortSpec: lines 888-891 on lists of sampled indexes
\* ------------------------------------------------------------------------

\* the lists of at most SortLen distinct sampled indexes, in any order
CollectionOrders ==
    {s \in UNION {[1..n -> SampleIndexes] : n \in 1..SortLen} :
        \A j, k \in 1..Len(s) : j # k => s[j] # s[k]}

\* lines 888-890 for video segments (.ts)
SortFiles ==
    /\ sort_pc = "collected"
    /\ LET pairs == [k \in 1..Len(sort_in) |->
                       [index |-> sort_in[k], ext |-> ".ts",
                        duration |-> SampleDuration(sort_in[k])]]
           sorted == SortByName(pairs)
       IN  sort_out' = [k \in 1..Len(sorted) |-> sorted[k].index]
    /\ sort_pc' = "sorted"
    /\ UNCHANGED sort_in
    /\ UNCHANGED <<dvVars, mfVars, sessVars, unitVars, guiVars, fnVars>>

\* ------------------------------------------------------------------------
\* Initial and idle values
\* ------------------------------------------------------------------------
DvInit ==
    /\ video_info = "Pending"
    /\ failure = "none"
    /\ iframe_by = 0
    /\ m3u8_by = 0
    /\ iframe_domain = "Unbound"
    /\ subtitle_url = None
    /\ probes = << >>
    /\ result = "pending"
    /\ attempts = << >>
    /\ success = FALSE
    /\ is_image_based = FALSE
    /\ unit = << >>
    /\ successful_files = << >>
    /\ successful_durations = << >>
    /\ failed_count = 0
    /\ raised = FALSE
    /\ temp_exists = FALSE
    /\ temp_files = {}
    /\ merge_calls = << >>
    /\ output_file = "absent"
    /\ session_ret = "pending"
    /\ subtitle_downloads = 0
    /\ subtitle_ret = "none"

GuiIdle ==
    /\ is_downloading = FALSE
    /\ download_stats = [total |-> 0, completed |-> 0, failed |-> 0]
    /\ after_queue = 0
    /\ worker_pc = [w \in Workers |-> "unborn"]
    /\ worker_urls = [w \in Workers |-> 0]
    /\ worker_i = [w \in Workers |-> 0]
    /\ worker_success = [w \in Workers |-> FALSE]
    /\ worker_read = [w \in Workers |-> 0]
    /\ pending_files = [w \in Workers |-> {}]
    /\ globbed = [w \in Workers |-> {}]
    /\ stop_requested = [w \in Workers |-> FALSE]

FnIdle ==
    /\ fn_pc = "idle"
    /\ fn_in = << >>
    /\ fn_out = << >>

SortIdle ==
    /\ sort_pc = "idle"
    /\ sort_in = << >>
    /\ sort_out = << >>

UnitIdle ==
    /\ unit_index = 0
    /\ req_log = << >>
    /\ unit_file = "absent"
    /\ unit_ret = Running

\* ------------------------------------------------------------------------
\* Spec: one call of download_video
\* ------------------------------------------------------------------------
Init ==
    /\ pc = "dv_start"
    /\ DvInit
    /\ segments = << >>
    /\ segment_durations = << >>
    /\ UnitIdle
    /\ GuiIdle
    /\ SortIdle
    /\ FnIdle

Next ==
    \/ ValidateUrl
    \/ FetchPage
    \/ FindIframe
    \/ ExtractDataId
    \/ FetchFrame
    \/ FindM3u8
    \/ TrackLookup
    \/ SubtitleFallback
    \/ ReturnInfo
    \/ CheckInfo
    \/ PrimaryAttempt
    \/ AfterPrimary
    \/ SecondaryAttempt
    \/ ManifestCheck
    \/ ParseAndMkdir
    \/ \E i \in DOMAIN unit : RunUnit(i)
    \/ Raise
    \/ GateAndMerge
    \/ RaiseToFinally
    \/ Finally
    \/ Finish

Spec == Init /\ [][Next]_vars

\* every request and every tool run returns or hits its timeout (lines 84,
\* 197, 255, 389, 411, 499, 639, 692, 810, 980, 1109, 1160): a step that can
\* be taken is taken
FairSpec == Spec /\ WF_vars(Next)

\* ------------------------------------------------------------------------
\* UnitSpec: one fetch unit, for every sampled manifest and every entry of it
\* ------------------------------------------------------------------------
UnitInit ==
    /\ pc = "unit"
    /\ DvInit
    /\ \E shape \in ManifestShapes :
         /\ shape.n >= 1
         /\ segments = SegmentsOf(shape)
         /\ segment_durations = [i \in 0..(shape.n - 1) |-> SampleDuration(i)]
    /\ unit_index \in DOMAIN segments
    /\ req_log = << >>
    /\ unit_file = "absent"
    /\ unit_ret = Running
    /\ GuiIdle
    /\ SortIdle
    /\ FnIdle

UnitNext ==
    \/ UnitRequest
    \/ UnitGiveUp

UnitSpec == UnitInit /\ [][UnitNext]_vars

\* ------------------------------------------------------------------------
\* GuiSpec: the front end and its workers
\* ------------------------------------------------------------------------
GuiInit ==
    /\ pc = "gui"
    /\ DvInit
    /\ segments = << >>
    /\ segment_durations = << >>
    /\ UnitIdle
    /\ GuiIdle
    /\ SortIdle
    /\ FnIdle

GuiNext ==
    \/ StartDownload
    \/ StopDownload
    \/ DownloadFinished
    \/ \E w \in Workers :
         \/ WorkerInit(w)
         \/ WorkerInitCompleted(w)
         \/ WorkerInitFailed(w)
         \/ WorkerLoop(w)
         \/ WorkerResolve(w)
         \/ WorkerFetch(w)
         \/ WorkerGate(w)
         \/ WorkerUnlink(w)
         \/ WorkerRmdir(w)
         \/ WorkerCountRead(w)
         \/ WorkerCountWrite(w)
         \/ WorkerExit(w)

GuiSpec == GuiInit /\ [][GuiNext]_vars

\* ------------------------------------------------------------------------
\* SortSpec
\* ------------------------------------------------------------------------
SortInit ==
    /\ pc = "sort"
    /\ DvInit
    /\ segments = << >>
    /\ segment_durations = << >>
    /\ UnitIdle
    /\ GuiIdle
    /\ sort_pc = "collected"
    /\ sort_in \in CollectionOrders
    /\ sort_out = << >>
    /\ FnIdle

SortNext == SortFiles

SortSpec == SortInit /\ [][SortNext]_vars

\* ------------------------------------------------------------------------
\* Specifications of single functions and code fragments.  Each one draws
\* the arguments in its initial state (fn_in) and applies the code to them.
\* ------------------------------------------------------------------------
coreVars == <<dvVars, mfVars, sessVars, unitVars, guiVars, sortVars>>

CoreIdle ==
    /\ pc = "fn"
    /\ DvInit
    /\ segments = << >>
    /\ segment_durations = << >>
    /\ UnitIdle
    /\ GuiIdle
    /\ SortIdle

\* ------------------------------------------------------------------------
\* ProbeSpec: the HEAD probes of the constructed frame-URL candidates
\* (lines 188-210) and of the constructed manifest-URL candidates (380-421)
\* ------------------------------------------------------------------------

\* a Location header, reduced to what the code tests: whether it is there,
\* whether it contains one of invalid_domains (line 398), and whether it
\* contains '.m3u8', 'myani.app' or 'imgkr' (line 404)
NoLocation == [present |-> FALSE, invalid |-> FALSE, m3u8like |-> FALSE]
Locations ==
    {NoLocation} \cup
    {[present |-> TRUE, invalid |-> i, m3u8like |-> m] : i \in BOOLEAN, m \in BOOLEAN}

\* what a probe is answered: session.head raises, or returns a status and,
\* for a redirect, a Location and the status of the HEAD of that location
\* (session.head does not follow redirects)
ProbeAnswers ==
    {[raised |-> TRUE, status |-> 0, location |-> NoLocation, redirect_status |-> 0]}
    \cup {[raised |-> FALSE, status |-> st, location |-> NoLocation, redirect_status |-> 0] :
             st \in {200, 404}}
    \cup {[raised |-> FALSE, status |-> st, location |-> loc, redirect_status |-> rs] :
             st \in {301, 302}, loc \in Locations, rs \in {200, 404}}

NoUrl == [kind |-> "none", invalid |-> FALSE, m3u8like |-> FALSE]
CandidateUrl == [kind |-> "candidate", invalid |-> FALSE, m3u8like |-> TRUE]
RedirectUrl(loc) == [kind |-> "redirect", invalid |-> loc.invalid, m3u8like |-> loc.m3u8like]

\* lines 197-206: what iframe_url becomes after one probe
AcceptIframe(a) ==
    IF a.raised THEN NoUrl
    ELSE IF a.status = 200 THEN CandidateUrl
    ELSE IF a.status \in {301, 302} /\ a.location.present THEN RedirectUrl(a.location)
    ELSE NoUrl

\* lines 390-414: what m3u8_url becomes after one probe
AcceptM3u8(a) ==
    IF a.raised THEN NoUrl
    ELSE IF a.status = 200 THEN CandidateUrl
    ELSE IF a.status \in {301, 302} /\ a.location.present
      THEN IF a.location.invalid THEN NoUrl
           ELSE IF ~a.location.m3u8like THEN NoUrl
           ELSE IF a.redirect_status = 200 THEN RedirectUrl(a.location)
           ELSE NoUrl
    ELSE NoUrl

\* one iteration of `for test_iframe_url in possible_iframe_urls` (188-210)
ProbeIframeCandidate ==
    /\ fn_pc = "probe"
    /\ fn_in.stage = "iframe"
    /\ fn_out.url = NoUrl
    /\ Len(fn_out.log) < MaxProbes
    /\ \E a \in ProbeAnswers :
         fn_out' = [log |-> Append(fn_out.log, a), url |-> AcceptIframe(a)]
    /\ UNCHANGED <<fn_pc, fn_in>>
    /\ UNCHANGED coreVars

\* one iteration of `for test_url in possible_patterns` (380-421)
ProbeM3u8Candidate ==
    /\ fn_pc = "probe"
    /\ fn_in.stage = "m3u8"
    /\ fn_out.url = NoUrl
    /\ Len(fn_out.log) < MaxProbes
    /\ \E a \in ProbeAnswers :
         fn_out' = [log |-> Append(fn_out.log, a), url |-> AcceptM3u8(a)]
    /\ UNCHANGED <<fn_pc, fn_in>>
    /\ UNCHANGED coreVars

ProbeInit ==
    /\ CoreIdle
    /\ fn_pc = "probe"
    /\ fn_in \in {[stage |-> "iframe"], [stage |-> "m3u8"]}
    /\ fn_out = [log |-> << >>, url |-> NoUrl]

ProbeNext ==
    \/ ProbeIframeCandidate
    \/ ProbeM3u8Candidate

ProbeSpec == ProbeInit /\ [][ProbeNext]_vars

\* ------------------------------------------------------------------------
\* ValidateSpec: validate_url (lines 54-65) on sampled URLs
\* ------------------------------------------------------------------------

\* a URL cut into the pieces the pattern distinguishes:
\* <scheme>://<host><dir>v<vdigits digits>-sub-<sdigits digits><tail>, the
\* tail a sequence of characters, "e" for any character that is no slash
Urls ==
    [scheme : {"https", "http"},
     host : {"linkkf.live", "example.org"},
     dir : {"/player/", "/watch/"},
     vdigits : 0..MaxDigits,
     sdigits : 0..MaxDigits,
     tail : {<< >>, <<"/">>, <<"/", "e">>, <<"e">>}]

\* line 64-65: re.match(r'https://linkkf\.live/player/v\d+-sub-\d+/', url):
\* anchored at the start only, so anything may follow the slash
validate_url(url) ==
    /\ url.scheme = "https"
    /\ url.host = "linkkf.live"
    /\ url.dir = "/player/"
    /\ url.vdigits >= 1
    /\ url.sdigits >= 1
    /\ url.tail # << >>
    /\ url.tail[1] = "/"

ApplyValidate ==
    /\ fn_pc = "validate"
    /\ fn_out' = validate_url(fn_in)
    /\ fn_pc' = "validated"
    /\ UNCHANGED fn_in
    /\ UNCHANGED coreVars

ValidateInit ==
    /\ CoreIdle
    /\ fn_pc = "validate"
    /\ fn_in \in Urls
    /\ fn_out = FALSE

ValidateNext == ApplyValidate

ValidateSpec == ValidateInit /\ [][ValidateNext]_vars

\* ------------------------------------------------------------------------
\* ParseSpec: the playlist parser (lines 719-756) on sampled playlists.
\* A text is a sequence of tokens; the playlist was fetched from
\* https://cdn.example/path/playlist.m3u8
\* ------------------------------------------------------------------------
BaseOrigin == "https://cdn.example"
BaseDir == "/path/"

\* line.startswith('http'), line.startswith('/'): decided by the first token
StartsWithHttp(text) == text[1] \in {"https://cdn.example", "https://other.example", "http_seg/"}
StartsWithSlash(text) == text[1] \in {"/path/", "/root/"}

\* the stripped lines a sampled playlist is made of.  kind: "blank" (empty
\* after strip), "comment" (starts with '#', not with '#EXTINF:'), "extinf"
\* ('#EXTINF:' followed by a number float() accepts, in tenths of a second),
\* "extinf_bad" ('#EXTINF:' followed by something float() rejects), "uri"
UriTexts ==
    {<<"https://other.example", "/v/", "a.ts">>,     \* absolute
     <<"/root/", "b.ts">>,                           \* root-relative
     <<"seg0.ts">>, <<"seg1.ts">>,                   \* relative
     <<"http_seg/", "c.ts">>}                        \* relative, in directory http_seg
PlaylistLines ==
    {[kind |-> "blank", dur |-> 0, text |-> << >>],
     [kind |-> "comment", dur |-> 0, text |-> << >>],
     [kind |-> "extinf_bad", dur |-> 0, text |-> << >>]}
    \cup {[kind |-> "extinf", dur |-> d, text |-> << >>] : d \in {40, 65}}
    \cup {[kind |-> "uri", dur |-> 0, text |-> t] : t \in UriTexts}

Playlists == UNION {[1..n -> PlaylistLines] : n \in 0..MaxLines}

\* lines 729-735: the duration after an '#EXTINF:' line; a value float()
\* rejects resets it to 5.0 (the bare except of line 734)
DurationAfter(line, current_duration) ==
    IF line.kind = "extinf" THEN line.dur
    ELSE IF line.kind = "extinf_bad" THEN DefaultDuration
    ELSE current_duration

\* every line joined to the base directory, absolute or not: the variant C15
\* is tested against
ResolveAlwaysJoin(text) == <<BaseOrigin, BaseDir>> \o text

\* lines 740-753: the segment URL of a line that is neither empty nor a
\* comment.  urljoin(base_path, line) is the base directory followed by the
\* line for the sampled relative lines.
ResolveLine(text) ==
    IF StartsWithHttp(text) THEN text
    ELSE IF StartsWithSlash(text) THEN <<BaseOrigin>> \o text
    ELSE <<BaseOrigin, BaseDir>> \o text

\* lines 727-756: the loop over the lines from the k-th on
RECURSIVE ParseFrom(_, _, _, _)
ParseFrom(lines, k, current_duration, entries) ==
    IF k > Len(lines) THEN entries
    ELSE LET line == lines[k]
             d == DurationAfter(line, current_duration)
         IN  IF line.kind = "uri"
               THEN ParseFrom(lines, k + 1, d,
                        Append(entries, [url |-> ResolveLine(line.text), duration |-> d]))
               ELSE ParseFrom(lines, k + 1, d, entries)

\* lines 721-756: segments and segment_durations, as a list of pairs; the
\* index of an entry (line 850, enumerate) is its position counted from 0
ParseManifest(lines) == ParseFrom(lines, 1, DefaultDuration, << >>)

\* a playlist written from parsed entries: the marker line, then for each
\* entry its duration declaration and its URL
RECURSIVE Serialize(_)
Serialize(entries) ==
    IF entries = << >> THEN <<[kind |-> "comment", dur |-> 0, text |-> << >>]>>
    ELSE Serialize(SubSeq(entries, 1, Len(entries) - 1)) \o
         <<[kind |-> "extinf", dur |-> entries[Len(entries)].duration, text |-> << >>],
           [kind |-> "uri", dur |-> 0, text |-> entries[Len(entries)].url]>>

ApplyParse ==
    /\ fn_pc = "parse"
    /\ fn_out' = [entries |-> ParseManifest(fn_in), again |-> << >>]
    /\ fn_pc' = "parsed"
    /\ UNCHANGED fn_in
    /\ UNCHANGED coreVars

\* the parser applied to the playlist written from its own output
ApplyReparse ==
    /\ fn_pc = "parsed"
    /\ fn_out' = [fn_out EXCEPT !.again = ParseManifest(Serialize(fn_out.entries))]
    /\ fn_pc' = "reparsed"
    /\ UNCHANGED fn_in
    /\ UNCHANGED coreVars

ParseInit ==
    /\ CoreIdle
    /\ fn_pc = "parse"
    /\ fn_in \in Playlists
    /\ fn_out = [entries |-> << >>, again |-> << >>]

ParseNext ==
    \/ ApplyParse
    \/ ApplyReparse

ParseSpec == ParseInit /\ [][ParseNext]_vars

\* ------------------------------------------------------------------------
\* CandidateSpec: the constructed manifest-URL candidates (lines 311-377)
\* ------------------------------------------------------------------------

\* a two-character end of a data id: a letter and a digit; NoEnd if the id
\* has no such end
NoEnd == [letter |-> "", digit |-> 0]
IdEnd(l, d) == [letter |-> l, digit |-> d]
IdEnds == {NoEnd} \cup {IdEnd(l, d) : l \in {"n", "s", "x"}, d \in 1..7}

\* a data id (player_data_url): its end, and whether 'n1' occurs in what
\* precedes the end
DataIds == [tail : IdEnds, stem_has_n1 : BOOLEAN]

\* the domain of the frame URL: which of the tests of lines 317 and 327 hold
FrameHosts == {"myani.app", "sub3.top", "other"}

\* line 330 and 343-344: `'n1' in player_data_url`
ContainsN1(id) == id.stem_has_n1 \/ id.tail = IdEnd("n", 1)

\* a candidate: its template, and the id it embeds: the data id with its last
\* two characters cut off or not, followed by `add`
Unchanged(t) == [template |-> t, cut |-> FALSE, add |-> NoEnd]

\* line 330: base_id, used with the suffix of lines 343-344
AlternativeOf(id, t) ==
    [template |-> t,
     cut |-> id.tail \in {IdEnd("n", 1), IdEnd("s", 1), IdEnd("n", 2), IdEnd("s", 2)},
     add |-> IF ContainsN1(id) THEN IdEnd("s", 1) ELSE IdEnd("n", 1)]

\* lines 317-356: the candidates chosen by the domain
DomainCandidates(host, id) ==
    IF host = "myani.app"
      THEN <<Unchanged("m3k.myani.app/b2nss4/m3u8/{}.m3u8"),
             Unchanged("m3k.myani.app/b2k37/m3u8/{}.m3u8"),
             Unchanged("m3k.myani.app/b2k28/m3u8/{}.m3u8"),
             Unchanged("m3k.myani.app/b2/m3u8/{}.m3u8"),
             Unchanged("g2.myani.app/hls/{}/index.m3u8"),
             Unchanged("g2.myani.app/stream/{}/index.m3u8")>>
    ELSE IF host = "sub3.top"
      THEN <<Unchanged("bn1.imgkr4.top/file/k0625n1/{}/index.m3u8"),
             Unchanged("bn2.imgkr4.top/file/k0625n1/{}/index.m3u8"),
             Unchanged("bn3.imgkr4.top/file/k0625n1/{}/index.m3u8"),
             Unchanged("play.sub3.top/hls/{}/index.m3u8"),
             Unchanged("play.sub3.top/stream/{}/index.m3u8"),
             Unchanged("sub3.top/hls/{}/index.m3u8"),
             Unchanged("m3k.myani.app/b2nss4/m3u8/{}.m3u8"),
             Unchanged("g2.myani.app/hls/{}/index.m3u8"),
             AlternativeOf(id, "m3k.myani.app/b2nss4/m3u8/{}.m3u8"),
             AlternativeOf(id, "bn1.imgkr4.top/file/k0625n1/{}/index.m3u8")>>
    ELSE <<Unchanged("m3k.myani.app/b2nss4/m3u8/{}.m3u8"),
           Unchanged("bn1.imgkr4.top/file/k0625n1/{}/index.m3u8"),
           Unchanged("bn2.imgkr4.top/file/k0625n1/{}/index.m3u8"),
           Unchanged("bn3.imgkr4.top/file/k0625n1/{}/index.m3u8"),
           Unchanged("play.sub3.top/hls/{}/index.m3u8"),
           Unchanged("g2.myani.app/hls/{}/index.m3u8"),
           Unchanged("m3k.myani.app/b2k37/m3u8/{}.m3u8")>>

\* the digits of the suffixes lines 358 and 370 recognize
CrossDigits == 1..6

\* lines 357-377: the id with n and s exchanged before its digit
CrossCandidates(id) ==
    LET Swapped(l, t) == [template |-> t, cut |-> TRUE, add |-> IdEnd(l, id.tail.digit)] IN
    IF id.tail.letter = "n" /\ id.tail.digit \in CrossDigits
      THEN <<Swapped("s", "m3k.myani.app/b2nss4/m3u8/{}.m3u8"),
             Swapped("s", "m3k.myani.app/b2k37/m3u8/{}.m3u8"),
             Swapped("s", "m3k.myani.app/b2k28/m3u8/{}.m3u8"),
             Swapped("s", "m3k.myani.app/b2/m3u8/{}.m3u8"),
             Swapped("s", "g2.myani.app/hls/{}/index.m3u8"),
             Swapped("s", "bi1.imgkr2.top/file/ns2bb4/{}/index.m3u8"),
             Swapped("s", "bi2.imgkr2.top/file/ns2bb4/{}/index.m3u8")>>
    ELSE IF id.tail.letter = "s" /\ id.tail.digit \in CrossDigits
      THEN <<Swapped("n", "bn1.imgkr4.top/file/k0625n1/{}/index.m3u8"),
             Swapped("n", "play.sub3.top/hls/{}/index.m3u8"),
             Swapped("n", "play.sub3.top/stream/{}/index.m3u8")>>
    ELSE << >>

\* lines 311-377: possible_patterns
possible_patterns(host, id) == DomainCandidates(host, id) \o CrossCandidates(id)

BuildCandidates ==
    /\ fn_pc = "candidates"
    /\ fn_out' = possible_patterns(fn_in.host, fn_in.id)
    /\ fn_pc' = "built"
    /\ UNCHANGED fn_in
    /\ UNCHANGED coreVars

CandidateInit ==
    /\ CoreIdle
    /\ fn_pc = "candidates"
    /\ fn_in \in [host : FrameHosts, id : DataIds]
    /\ fn_out = << >>

CandidateNext == BuildCandidates

CandidateSpec == CandidateInit /\ [][CandidateNext]_vars

\* ------------------------------------------------------------------------
\* ClassifySpec: one answer to a manifest request, classified (lines 612-661)
\* ------------------------------------------------------------------------

\* lines 646-661 (and 697-704): what one attempt makes of the answer
ApplyClassify ==
    /\ fn_pc = "classify"
    /\ fn_out' = [content_type |-> Classified(fn_in), accepted |-> Accepts(fn_in)]
    /\ fn_pc' = "classified"
    /\ UNCHANGED fn_in
    /\ UNCHANGED coreVars

ClassifyInit ==
    /\ CoreIdle
    /\ fn_pc = "classify"
    /\ fn_in \in Responses
    /\ fn_out = [content_type |-> "none", accepted |-> FALSE]

ClassifyNext == ApplyClassify

ClassifySpec == ClassifyInit /\ [][ClassifyNext]_vars

\* ------------------------------------------------------------------------
\* BatchSpec: download_worker's targets, one after the other, and the files
\* they leave in the output directory (linkkf_gui.py 548-581, lines 1174-1223)
\* ------------------------------------------------------------------------

\* the safe_title of a target's page (lines 428-441), which names its output
\* file (line 518)
Titles == {"A", "B"}

\* how far a target gets: its resolution fails, no manifest is retrieved, the
\* gate is not met, or the tool is run and ends in one of ToolOutcomes
Fates == {"resolution", "manifest", "gate"} \cup ToolOutcomes

Targets == [title : Titles, fate : Fates]

Batches == UNION {[1..n -> Targets] : n \in 1..MaxUrls}

\* the file at an output path: nothing, or what target `by` wrote there
NoFile == [by |-> 0, whole |-> FALSE]
FileOf(i, whole) == [by |-> i, whole |-> whole]

\* lines 1189-1191: extract_video_info returned None
BatchExtractFails ==
    /\ fn_pc = "extract"
    /\ fn_out.i <= Len(fn_in)
    /\ fn_in[fn_out.i].fate = "resolution"
    /\ fn_out' = [fn_out EXCEPT !.results = Append(@, "False"), !.i = @ + 1]
    /\ UNCHANGED <<fn_pc, fn_in>>
    /\ UNCHANGED coreVars

\* lines 1188-1199: output_file = output_dir / video_info['filename']
BatchExtract ==
    /\ fn_pc = "extract"
    /\ fn_out.i <= Len(fn_in)
    /\ fn_in[fn_out.i].fate # "resolution"
    /\ fn_out' = [fn_out EXCEPT !.output_file = fn_in[fn_out.i].title]
    /\ fn_pc' = "download"
    /\ UNCHANGED fn_in
    /\ UNCHANGED coreVars

\* lines 1201-1223: download_m3u8_segments_advanced writes to output_file
\* only through the tool; download_video returns its result
BatchDownload ==
    /\ fn_pc = "download"
    /\ LET i == fn_out.i
           fate == fn_in[i].fate
           path == fn_out.output_file
       IN  \E left \in IF fate \in ToolOutcomes
                          THEN ToolLeaves(fate, fn_out.disk[path], FileOf(i, TRUE),
                                          FileOf(i, FALSE))
                          ELSE {fn_out.disk[path]} :
             fn_out' = [fn_out EXCEPT
                          !.disk[path] = left,
                          !.results = Append(@, IF fate = "exit 0" THEN "True" ELSE "False"),
                          !.output_file = None,
                          !.i = @ + 1]
    /\ fn_pc' = "extract"
    /\ UNCHANGED fn_in
    /\ UNCHANGED coreVars

BatchInit ==
    /\ CoreIdle
    /\ fn_pc = "extract"
    /\ fn_in \in Batches
    /\ fn_out = [i |-> 1, output_file |-> None, disk |-> [t \in Titles |-> NoFile],
                 results |-> << >>]

BatchNext == BatchExtractFails \/ BatchExtract \/ BatchDownload

BatchSpec == BatchInit /\ [][BatchNext]_vars

\* ------------------------------------------------------------------------
\* AssembleSpec: calls of _merge_segments_with_ffmpeg (lines 915-1010) and of
\* _merge_images_to_video (lines 1012-1132), one after the other
\* ------------------------------------------------------------------------

\* lines 930-940 and 1030-1040: the ffmpeg.exe next to the script, the one in
\* the current directory, or 'ffmpeg' on the PATH
FfmpegCmds == {"local", "cwd", "ffmpeg"}

\* a call: the assembler, the command it picks and how the tool ends; the tool
\* can only be missing when neither ffmpeg.exe exists
AssemblerCalls ==
    {c \in [mode : {"media", "images"}, ffmpeg_cmd : FfmpegCmds, tool : ToolOutcomes] :
        c.tool = "missing" => c.ffmpeg_cmd = "ffmpeg"}

\* the paths the image assembler's scratch directory is compared with: the
\* output file (line 1089) and the session's temp_segments (line 777)
OutputPath == "out/title.mp4"
WorkspacePath == "out/temp_segments"

\* names mkdtemp can draw in the system temp folder, and the directories of
\* that form other runs may have left there
ScratchNames == {"tmp/linkkf_a", "tmp/linkkf_b", "tmp/linkkf_c"}
StaleScratch == SUBSET {"tmp/linkkf_a", "tmp/linkkf_b"}

\* an assembler that works in the session's temp_segments: the variant C30 is
\* tested against
UseWorkspace(paths) == {WorkspacePath}

\* line 1045: tempfile.TemporaryDirectory(prefix="linkkf_") makes a directory
\* under a drawn name that does not exist yet
TemporaryDirectory(paths) == ScratchNames \ paths

\* lines 943-950: filelist.txt is written into the output directory;
\* lines 1045-1072: concat_list.txt is written into a TemporaryDirectory
AsmWriteList ==
    /\ fn_pc = "asm_write"
    /\ IF fn_in.mode = "media"
         THEN fn_out' = [fn_out EXCEPT !.file_list = TRUE]
         ELSE \E temp_dir \in TemporaryDirectory(fn_out.paths) :
                fn_out' = [fn_out EXCEPT !.concat_list = TRUE,
                                         !.temp_dir = temp_dir,
                                         !.fresh = temp_dir \notin fn_out.paths,
                                         !.paths = @ \cup {temp_dir}]
    /\ fn_pc' = "asm_run"
    /\ UNCHANGED fn_in
    /\ UNCHANGED coreVars

\* lines 974-982 and 1102-1114: subprocess.run returns a result, or raises
\* TimeoutExpired or FileNotFoundError; leaving the `with` block of line 1045
\* removes the TemporaryDirectory either way
AsmRun ==
    /\ fn_pc = "asm_run"
    /\ fn_out' = IF fn_in.mode = "images"
                   THEN [fn_out EXCEPT !.concat_list = FALSE,
                                       !.paths = @ \ {fn_out.temp_dir}]
                   ELSE fn_out
    /\ fn_pc' = IF fn_in.tool \in {"timeout", "missing"} THEN "asm_except"
                  ELSE IF fn_in.mode = "media" THEN "asm_unlink"
                  ELSE "asm_result"
    /\ UNCHANGED fn_in
    /\ UNCHANGED coreVars

\* lines 984-988: file_list_path.unlink()
AsmUnlink ==
    /\ fn_pc = "asm_unlink"
    /\ fn_out' = [fn_out EXCEPT !.file_list = FALSE]
    /\ fn_pc' = "asm_result"
    /\ UNCHANGED fn_in
    /\ UNCHANGED coreVars

\* what a returned call leaves to its caller: the returned value
Returned(value) ==
    [fn_out EXCEPT !.ret = value,
                   !.log = Append(@, [mode |-> fn_in.mode, tool |-> fn_in.tool,
                                      ret |-> value])]

\* lines 990-1000 and 1116-1123: True on return code 0, else False
AsmResult ==
    /\ fn_pc = "asm_result"
    /\ fn_out' = Returned(IF fn_in.tool = "exit 0" THEN "True" ELSE "False")
    /\ fn_pc' = "asm_returned"
    /\ UNCHANGED fn_in
    /\ UNCHANGED coreVars

\* lines 1002-1010 and 1125-1132: each except clause prints and returns False
AsmExcept ==
    /\ fn_pc = "asm_except"
    /\ fn_out' = Returned("False")
    /\ fn_pc' = "asm_returned"
    /\ UNCHANGED fn_in
    /\ UNCHANGED coreVars

\* the next assembler call of the same downloader, into the same output
\* directory
AsmNextCall ==
    /\ fn_pc = "asm_returned"
    /\ Len(fn_out.log) < MaxCalls
    /\ fn_in' \in AssemblerCalls
    /\ fn_out' = [fn_out EXCEPT !.ret = "pending", !.temp_dir = None, !.fresh = FALSE]
    /\ fn_pc' = "asm_write"
    /\ UNCHANGED coreVars

AssembleInit ==
    /\ CoreIdle
    /\ fn_pc = "asm_write"
    /\ fn_in \in AssemblerCalls
    /\ \E stale \in StaleScratch :
         fn_out = [file_list |-> FALSE, concat_list |-> FALSE, ret |-> "pending",
                   log |-> << >>, temp_dir |-> None, fresh |-> FALSE,
                   paths |-> {WorkspacePath} \cup stale]

AssembleNext ==
    \/ AsmWriteList
    \/ AsmRun
    \/ AsmUnlink
    \/ AsmResult
    \/ AsmExcept
    \/ AsmNextCall

AssembleSpec == AssembleInit /\ [][AssembleNext]_vars

\* ------------------------------------------------------------------------
\* TitleSpec: safe_title, the title cleaned for a file name (lines 427-441)
\* ------------------------------------------------------------------------

\* A title is a sequence of runs [ch, n]: n >= 1 copies of ch.  ch is a
\* letter, a blank, a tab, a character of the class of line 428, an
\* apostrophe, an underscore, the word 'Linkkf' or the suffix of line 434
\* (written "-jamak" here).
TitleLimit == 100
TitleChars == {"a", " ", "\t", "/", "'", "_", "Linkkf", "-jamak"}
TitleRuns == [ch : TitleChars, n : {1, TitleLimit - 1}]
SampleTitles == UNION {[1..k -> TitleRuns] : k \in 0..MaxRuns}
Whitespace == {" ", "\t"}

CharLen(ch) == IF ch = "Linkkf" THEN 6 ELSE IF ch = "-jamak" THEN 3 ELSE 1

RECURSIVE TitleLen(_)
TitleLen(t) == IF t = << >> THEN 0 ELSE t[1].n * CharLen(t[1].ch) + TitleLen(Tail(t))

\* re.sub of a character class by one character
SubChars(t, class, to) ==
    [k \in 1..Len(t) |-> IF t[k].ch \in class THEN [ch |-> to, n |-> t[k].n] ELSE t[k]]

\* re.sub(r'X+', to): every maximal stretch of characters of `class` becomes
\* one `to`
RECURSIVE SubStretches(_, _, _)
SubStretches(t, class, to) ==
    IF t = << >> THEN << >>
    ELSE IF t[1].ch \notin class THEN <<t[1]>> \o SubStretches(Tail(t), class, to)
    ELSE IF Len(t) > 1 /\ t[2].ch \in class THEN SubStretches(Tail(t), class, to)
    ELSE <<[ch |-> to, n |-> 1]>> \o SubStretches(Tail(t), class, to)

RECURSIVE StripLeft(_, _)
StripLeft(t, class) ==
    IF t # << >> /\ t[1].ch \in class THEN StripLeft(Tail(t), class) ELSE t

RECURSIVE StripRight(_, _)
StripRight(t, class) ==
    IF t # << >> /\ t[Len(t)].ch \in class
      THEN StripRight(SubSeq(t, 1, Len(t) - 1), class) ELSE t

\* str.strip(chars)
StripChars(t, class) == StripRight(StripLeft(t, class), class)

\* the title without the last copy of its last run
DropLast(t) ==
    LET last == t[Len(t)] IN
    IF last.n = 1 THEN SubSeq(t, 1, Len(t) - 1)
    ELSE [t EXCEPT ![Len(t)] = [ch |-> last.ch, n |-> last.n - 1]]

\* line 430: re.sub(r'\s*Linkkf\s*$', '')
SubLinkkf(t) ==
    LET body == StripRight(t, Whitespace) IN
    IF body # << >> /\ body[Len(body)].ch = "Linkkf"
      THEN StripRight(DropLast(body), Whitespace) ELSE t

\* line 434: re.sub of the subtitle suffix at the end
SubSuffix(t) ==
    IF t # << >> /\ t[Len(t)].ch = "-jamak" THEN DropLast(t) ELSE t

\* t[:limit]: a word cut in the middle leaves letters
RECURSIVE Slice(_, _)
Slice(t, limit) ==
    IF t = << >> \/ limit = 0 THEN << >>
    ELSE LET size == t[1].n * CharLen(t[1].ch) IN
         IF size <= limit THEN <<t[1]>> \o Slice(Tail(t), limit - size)
         ELSE IF CharLen(t[1].ch) = 1 THEN <<[ch |-> t[1].ch, n |-> limit]>>
         ELSE LET copies == limit \div CharLen(t[1].ch)
                  rest == limit % CharLen(t[1].ch)
              IN  (IF copies > 0 THEN <<[ch |-> t[1].ch, n |-> copies]>> ELSE << >>)
                  \o (IF rest > 0 THEN <<[ch |-> "a", n |-> rest]>> ELSE << >>)

\* lines 428-439: everything before the cut of line 440
Cleaned(title) ==
    LET s1 == SubChars(title, {"/"}, "_")
        s2 == StripChars(SubStretches(s1, {"_"}, "_"), {"_"})
        s3 == StripChars(SubLinkkf(s2), Whitespace)
        s4 == StripChars(SubSuffix(s3), Whitespace)
        s5 == SelectSeq(s4, LAMBDA r : r.ch # "'")
    IN  SubStretches(s5, Whitespace, " ")

\* safe_title without the strip of line 441: the variant C21 is tested against
SafeTitleUntrimmed(title) == Slice(Cleaned(title), TitleLimit)

\* lines 428-441
safe_title(title) == StripChars(Slice(Cleaned(title), TitleLimit), Whitespace)

ApplySanitize ==
    /\ fn_pc = "title"
    /\ fn_out' = safe_title(fn_in)
    /\ fn_pc' = "sanitized"
    /\ UNCHANGED fn_in
    /\ UNCHANGED coreVars

TitleInit ==
    /\ CoreIdle
    /\ fn_pc = "title"
    /\ fn_in \in SampleTitles
    /\ fn_out = << >>

TitleNext == ApplySanitize

TitleSpec == TitleInit /\ [][TitleNext]_vars

\* ------------------------------------------------------------------------
\* MarkerSpec: the frame URL taken from the player_post script (lines 106-173)
\* ------------------------------------------------------------------------

\* Texts are sequences of characters.  The assigned URL is written h U 1: its
\* first character, its body (which holds '.php') and its last character; a
\* second sample has a comma in its query string.
MarkerName == <<"p", "l", "a", "y", "e", "r", "_", "p", "o", "s", "t">>
ClickWord == <<".", "c", "l", "i", "c", "k">>
Quotes == {"\"", "'"}
SampleValues == {<<"h", "U", "1">>, <<"h", "U", ",", "1">>}

\* the page's only script: what precedes the assignment, the assignment with
\* its spacing and quoting, and what follows it
MarkerScripts ==
    {before \o MarkerName \o sep \o <<q>> \o value \o <<q>> \o after :
        before \in {<< >>, <<"x", ";">>, ClickWord \o <<"(">>},
        sep \in {<<"=">>, <<" ", "=", " ">>, <<":", " ">>, <<" ", "=">>, <<":">>},
        q \in Quotes,
        value \in SampleValues,
        after \in {<< >>, <<",">>, <<" ", ",">>, <<";">>, <<";", "x", ",">>, <<",", "x">>}}

\* the value the script assigns: the text between the first two quotes
AssignedValue(text) ==
    LET at == {k \in 1..Len(text) : text[k] \in Quotes}
        open == CHOOSE k \in at : \A j \in at : k <= j
        close == CHOOSE k \in at \ {open} : \A j \in at \ {open} : k <= j
    IN  SubSeq(text, open + 1, close - 1)

\* str.find(word, start): the index (from 0) of the first occurrence at or
\* after start, or -1
Find(text, word, start) ==
    LET hits == {i \in start..(Len(text) - Len(word)) :
                    SubSeq(text, i + 1, i + Len(word)) = word}
    IN  IF hits = {} THEN -1 ELSE CHOOSE i \in hits : \A j \in hits : i <= j

\* text[start:end], start >= 0
PySlice(text, start, end) ==
    LET stop == IF end < 0 THEN (IF Len(text) + end < 0 THEN 0 ELSE Len(text) + end)
                ELSE IF end > Len(text) THEN Len(text) ELSE end
    IN  IF start >= stop THEN << >> ELSE SubSeq(text, start + 1, stop)

RECURSIVE StripQuotes(_)
StripQuotes(text) ==
    IF text # << >> /\ text[1] \in Quotes THEN StripQuotes(Tail(text))
    ELSE IF text # << >> /\ text[Len(text)] \in Quotes
      THEN StripQuotes(SubSeq(text, 1, Len(text) - 1))
    ELSE text

\* lines 128-135: iframe_url from player_script, << >> where it stays None
PlayerPost(player_script) ==
    LET click_pos == Find(player_script, ClickWord, 0) IN
    IF click_pos = -1 THEN << >>
    ELSE LET player_post_start == Find(player_script, MarkerName, click_pos) + 13
             player_post_end == Find(player_script, <<",">>, player_post_start) - 1
         IN  StripQuotes(PySlice(player_script, player_post_start, player_post_end))

\* lines 150-173: the first quoted text of the script that holds one of the
\* host markers (here: the body U), << >> if there is none
ScriptPattern(text) ==
    LET at == {k \in 1..Len(text) : text[k] \in Quotes}
        hits == {i \in at : \E j \in at :
                    /\ i < j
                    /\ \A k \in (i + 1)..(j - 1) : k \notin at
                    /\ \E k \in (i + 1)..(j - 1) : text[k] = "U"}
    IN  IF hits = {} THEN << >>
        ELSE LET i == CHOOSE k \in hits : \A j \in hits : k <= j
                 j == CHOOSE k \in at : k > i /\ \A l \in at : l > i => k <= l
             IN  SubSeq(text, i + 1, j - 1)

\* lines 110-173 on a page whose only frame reference is its script: the
\* player_post strategy, no <iframe> element, then the script patterns
ExtractFromScript ==
    /\ fn_pc = "marker"
    /\ LET by_post == PlayerPost(fn_in) IN
       fn_out' = IF by_post # << >> THEN [iframe_url |-> by_post, by |-> 1]
                 ELSE [iframe_url |-> ScriptPattern(fn_in), by |-> 3]
    /\ fn_pc' = "extracted"
    /\ UNCHANGED fn_in
    /\ UNCHANGED coreVars

MarkerInit ==
    /\ CoreIdle
    /\ fn_pc = "marker"
    /\ fn_in \in MarkerScripts
    /\ fn_out = [iframe_url |-> << >>, by |-> 0]

MarkerNext == ExtractFromScript

MarkerSpec == MarkerInit /\ [][MarkerNext]_vars

\* ------------------------------------------------------------------------
\* CascadeSpec: the four strategies of the frame-URL stage (lines 124-233)
\* and of the manifest-URL stage (lines 260-425), one strategy per step
\* ------------------------------------------------------------------------

\* a cascade whose every strategy runs whatever was found before: the variant
\* C26 is tested against
StrategyAlwaysRuns(k, url) == TRUE

\* the guards of lines 128, 140, 150, 175 and 264, 269, 284, 308: the first
\* strategy runs on the link's initial None, each later one under
\* `if not iframe_url:` / `if not m3u8_url:`
StrategyRuns(k, url) == k = 1 \/ url = 0

\* One strategy.  fn_in.hit is the set of strategies that find a link on the
\* pages served; the link is written as the number of the strategy that
\* assigned it (0: None).  Strategy 4 issues the HEAD probes.
CascadeStep ==
    /\ fn_pc = "cascade"
    /\ fn_out.k <= 4
    /\ LET k == fn_out.k IN
       fn_out' = IF StrategyRuns(k, fn_out.url)
                   THEN [fn_out EXCEPT
                           !.tried = Append(@, k),
                           !.url = IF k \in fn_in.hit THEN k ELSE @,
                           !.probed = @ \/ (k = 4),
                           !.k = k + 1]
                   ELSE [fn_out EXCEPT !.k = k + 1]
    /\ UNCHANGED <<fn_pc, fn_in>>
    /\ UNCHANGED coreVars

\* lines 212-233 and 423-425: `if not iframe_url:` / `if not m3u8_url:`
\* return None
CascadeEnd ==
    /\ fn_pc = "cascade"
    /\ fn_out.k = 5
    /\ fn_pc' = IF fn_out.url = 0 THEN "ExtractionFailure" ELSE "accepted"
    /\ UNCHANGED <<fn_in, fn_out>>
    /\ UNCHANGED coreVars

CascadeInit ==
    /\ CoreIdle
    /\ fn_pc = "cascade"
    /\ fn_in \in [stage : {"iframe", "m3u8"}, hit : SUBSET (1..4)]
    /\ fn_out = [k |-> 1, url |-> 0, tried |-> << >>, probed |-> FALSE]

CascadeNext == CascadeStep \/ CascadeEnd

CascadeSpec == CascadeInit /\ [][CascadeNext]_vars

\* ------------------------------------------------------------------------
\* PoolSpec: the thread pool of lines 846-877, its units queued, running or
\* done
\* ------------------------------------------------------------------------

\* line 847: ThreadPoolExecutor(max_workers=8)
max_workers == 8

\* a pool that starts a thread for every submitted unit: the variant C27 is
\* tested against
ThreadPerUnit(running) == TRUE

\* the executor starts a queued unit while fewer than max_workers run
WorkerFree(running) == running < max_workers

RunningUnits == {i \in DOMAIN fn_out.futures : fn_out.futures[i] = "running"}

\* the executor takes the queued units in the order of their submission
PoolStart ==
    /\ fn_pc = "pool"
    /\ WorkerFree(Cardinality(RunningUnits))
    /\ \E i \in DOMAIN fn_out.futures :
         /\ fn_out.futures[i] = "queued"
         /\ \A j \in DOMAIN fn_out.futures : j < i => fn_out.futures[j] # "queued"
         /\ fn_out' = [fn_out EXCEPT !.futures[i] = "running"]
    /\ UNCHANGED <<fn_pc, fn_in>>
    /\ UNCHANGED coreVars

\* download_segment_advanced returns (lines 786-842)
PoolReturn ==
    /\ fn_pc = "pool"
    /\ \E i \in RunningUnits :
         fn_out' = [fn_out EXCEPT !.futures[i] = "done"]
    /\ UNCHANGED <<fn_pc, fn_in>>
    /\ UNCHANGED coreVars

\* an exception in the body of the as_completed loop (lines 853-871)
PoolRaise ==
    /\ fn_pc = "pool"
    /\ ~fn_out.raised
    /\ \E i \in DOMAIN fn_out.futures : fn_out.futures[i] = "done"
    /\ fn_out' = [fn_out EXCEPT !.raised = TRUE]
    /\ UNCHANGED <<fn_pc, fn_in>>
    /\ UNCHANGED coreVars

\* the `with` block of line 847 is left when every unit has returned; lines
\* 875-898 follow unless an exception is on its way to `finally`
PoolExit ==
    /\ fn_pc = "pool"
    /\ \A i \in DOMAIN fn_out.futures : fn_out.futures[i] = "done"
    /\ fn_pc' = IF fn_out.raised THEN "finally" ELSE "gate"
    /\ UNCHANGED <<fn_in, fn_out>>
    /\ UNCHANGED coreVars

\* lines 848-851: one future per (i, url) of enumerate(segments)
PoolInit ==
    /\ CoreIdle
    /\ fn_pc = "pool"
    /\ fn_in \in 1..MaxEntries
    /\ fn_out = [futures |-> [i \in 0..(fn_in - 1) |-> "queued"], raised |-> FALSE]

PoolNext == PoolStart \/ PoolReturn \/ PoolRaise \/ PoolExit

PoolSpec == PoolInit /\ [][PoolNext]_vars

\* ------------------------------------------------------------------------
\* DataIdSpec: extract_video_info from the accepted frame URL on (lines
\* 235-530), the query of the frame URL given
\* ------------------------------------------------------------------------

\* the query of a frame URL, one record per `name=value` between ? and &
ParamNames == {"url", "id", "xurl"}
ParamValues == {"", "42n1"}
FrameQueries ==
    UNION {[1..n -> [name : ParamNames, value : ParamValues]] : n \in 0..MaxParams}

\* a lookup that takes the first parameter with a value, whatever its name:
\* the variant C28 is tested against
FirstParamValue(query) ==
    LET at == {i \in DOMAIN query : query[i].value # ""}
    IN  IF at = {} THEN None ELSE query[Min(at)].value

\* lines 237-239: re.search(r'[?&]url=([^&]+)', iframe_url) and group(1); the
\* name stands right after ? or &, and the value has at least one character
url_param_match(query) ==
    LET at == {i \in DOMAIN query : query[i].name = "url" /\ query[i].value # ""}
    IN  IF at = {} THEN None ELSE query[Min(at)].value

\* extract_video_info returns None
DataIdReturnNone(why) ==
    /\ fn_pc' = "returned"
    /\ fn_out' = [fn_out EXCEPT !.ret = None, !.failure = why]

\* lines 235-244
DataIdExtract ==
    /\ fn_pc = "data_id"
    /\ IF url_param_match(fn_in) = None
         THEN DataIdReturnNone("ExtractionFailure")
         ELSE /\ fn_pc' = "fetch_frame"
              /\ fn_out' = [fn_out EXCEPT !.player_data_url = url_param_match(fn_in)]
    /\ UNCHANGED fn_in
    /\ UNCHANGED coreVars

\* lines 255-256
DataIdFetchFrame ==
    /\ fn_pc = "fetch_frame"
    /\ \E ok \in BOOLEAN :
         IF ok
           THEN /\ fn_pc' = "find_m3u8"
                /\ fn_out' = [fn_out EXCEPT !.requests = Append(@, "GET frame")]
           ELSE /\ fn_pc' = "returned"
                /\ fn_out' = [fn_out EXCEPT !.requests = Append(@, "GET frame"),
                                            !.ret = None, !.failure = "PageFetchError"]
    /\ UNCHANGED fn_in
    /\ UNCHANGED coreVars

\* lines 260-425
DataIdFindM3u8 ==
    /\ fn_pc = "find_m3u8"
    /\ \E hit \in SUBSET (1..4) :
         LET asked == IF hit \cap (1..3) = {}
                        THEN Append(fn_out.requests, "HEAD m3u8 candidates")
                        ELSE fn_out.requests
             bound == hit \cap (1..3) = {}
         IN  IF hit = {}
               THEN /\ fn_pc' = "returned"
                    /\ fn_out' = [fn_out EXCEPT !.requests = asked, !.domain_bound = bound,
                                                !.ret = None, !.failure = "ExtractionFailure"]
               ELSE /\ fn_pc' = "track"
                    /\ fn_out' = [fn_out EXCEPT !.requests = asked, !.domain_bound = bound]
    /\ UNCHANGED fn_in
    /\ UNCHANGED coreVars

\* lines 443-530: the <track> element, else the subtitle candidates; then the
\* record is returned
DataIdSubtitle ==
    /\ fn_pc = "track"
    /\ \E track \in {"src", "absent", "error"} :
         IF track = "src"
           THEN /\ fn_pc' = "returned"
                /\ fn_out' = [fn_out EXCEPT !.ret = "Info"]
           ELSE IF ~fn_out.domain_bound
                  THEN DataIdReturnNone("UnboundLocalError")
                  ELSE /\ fn_pc' = "returned"
                       /\ fn_out' = [fn_out EXCEPT
                                       !.requests = Append(@, "HEAD subtitle candidates"),
                                       !.ret = "Info"]
    /\ UNCHANGED fn_in
    /\ UNCHANGED coreVars

DataIdInit ==
    /\ CoreIdle
    /\ fn_pc = "data_id"
    /\ fn_in \in FrameQueries
    /\ fn_out = [player_data_url |-> None, requests |-> << >>, domain_bound |-> FALSE,
                 ret |-> "pending", failure |-> ""]

DataIdNext == DataIdExtract \/ DataIdFetchFrame \/ DataIdFindM3u8 \/ DataIdSubtitle

DataIdSpec == DataIdInit /\ [][DataIdNext]_vars

\* ------------------------------------------------------------------------
\* ImageSpec: the scratch copies and the concat list of
\* _merge_images_to_video (lines 1045-1073)
\* ------------------------------------------------------------------------

\* the members of a set of indexes, ascending: the order of the sorted files
RECURSIVE Ascending(_)
Ascending(S) == IF S = {} THEN << >> ELSE <<Min(S)>> \o Ascending(S \ {Min(S)})

\* durations of the sampled images, tenths of a second
ImageDurations == {40, 65}

\* the calls line 899 can make: the downloaded images by ascending index (some
\* indexes missing), each with a duration
ImageCalls ==
    UNION {[image_files : {Ascending(S)}, durations : [1..Cardinality(S) -> ImageDurations]] :
             S \in (SUBSET (0..(MaxSegs - 1))) \ {{}}}

\* line 1055: f"img_{i:05d}.jpg"
TempImageName(i) ==
    LET ds == ZeroPad(Decimal(i), IndexWidth) IN
    <<105, 109, 103, 95>> \o [k \in 1..Len(ds) |-> DigitCode[ds[k]]] \o ExtCodes(".jpg")

\* the list without the closing line: the variant C29 is tested against
RECURSIVE ConcatLinesUnclosed(_)
ConcatLinesUnclosed(temp_images) ==
    IF temp_images = << >> THEN << >>
    ELSE <<[file |-> temp_images[1].name], [duration |-> temp_images[1].duration]>>
           \o ConcatLinesUnclosed(Tail(temp_images))

\* lines 1064-1073: `file '<name>'` and `duration <d>` per image, then the last
\* image's `file` line once more
RECURSIVE ConcatLines(_)
ConcatLines(temp_images) ==
    IF temp_images = << >> THEN << >>
    ELSE IF Len(temp_images) = 1
      THEN <<[file |-> temp_images[1].name], [duration |-> temp_images[1].duration],
             [file |-> temp_images[1].name]>>
    ELSE <<[file |-> temp_images[1].name], [duration |-> temp_images[1].duration]>>
           \o ConcatLines(Tail(temp_images))

\* lines 1053-1060: one turn of the loop over enumerate(zip(image_files,
\* durations)); i is the number of images copied so far
ImgCopy ==
    /\ fn_pc = "img_copy"
    /\ LET i == Len(fn_out.temp_images) IN
         /\ i < Min({Len(fn_in.image_files), Len(fn_in.durations)})
         /\ fn_out' = [fn_out EXCEPT
                         !.copies = @ \cup {[name |-> TempImageName(i),
                                             content |-> fn_in.image_files[i + 1]]},
                         !.temp_images = Append(@, [name |-> TempImageName(i),
                                                    duration |-> fn_in.durations[i + 1]])]
    /\ UNCHANGED <<fn_pc, fn_in>>
    /\ UNCHANGED coreVars

\* lines 1062-1073
ImgWriteConcat ==
    /\ fn_pc = "img_copy"
    /\ Len(fn_out.temp_images) = Min({Len(fn_in.image_files), Len(fn_in.durations)})
    /\ fn_out' = [fn_out EXCEPT !.concat_list = ConcatLines(fn_out.temp_images)]
    /\ fn_pc' = "img_run"
    /\ UNCHANGED fn_in
    /\ UNCHANGED coreVars

ImageInit ==
    /\ CoreIdle
    /\ fn_pc = "img_copy"
    /\ fn_in \in ImageCalls
    /\ fn_out = [copies |-> {}, temp_images |-> << >>, concat_list |-> << >>]

ImageNext == ImgCopy \/ ImgWriteConcat

ImageSpec == ImageInit /\ [][ImageNext]_vars

\* ------------------------------------------------------------------------
\* ToolSpec: which ffmpeg each assembler picks (lines 929-941 and 1029-1041),
\* the two ffmpeg.exe files coming and going between the calls
\* ------------------------------------------------------------------------

\* whether <script directory>/ffmpeg.exe and <cwd>/ffmpeg.exe exist
ToolFiles == [local_ffmpeg : BOOLEAN, cwd_ffmpeg : BOOLEAN]

\* lines 929-941 of _merge_segments_with_ffmpeg
SegmentsFfmpegCmd(files) ==
    IF files.local_ffmpeg THEN "local"
    ELSE IF files.cwd_ffmpeg THEN "cwd"
    ELSE "ffmpeg"

\* an image assembler that looks in the working directory first: the variant
\* C31 is tested against
CwdFirstFfmpegCmd(files) ==
    IF files.cwd_ffmpeg THEN "cwd"
    ELSE IF files.local_ffmpeg THEN "local"
    ELSE "ffmpeg"

\* lines 1029-1041 of _merge_images_to_video
ImagesFfmpegCmd(files) ==
    IF files.local_ffmpeg THEN "local"
    ELSE IF files.cwd_ffmpeg THEN "cwd"
    ELSE "ffmpeg"

\* a call of _merge_segments_with_ffmpeg picks its tool
ToolForSegments ==
    /\ fn_pc = "tool"
    /\ Len(fn_out) < MaxCalls
    /\ fn_out' = Append(fn_out, [mode |-> "media", files |-> fn_in,
                                 ffmpeg_cmd |-> SegmentsFfmpegCmd(fn_in)])
    /\ UNCHANGED <<fn_pc, fn_in>>
    /\ UNCHANGED coreVars

\* a call of _merge_images_to_video picks its tool
ToolForImages ==
    /\ fn_pc = "tool"
    /\ Len(fn_out) < MaxCalls
    /\ fn_out' = Append(fn_out, [mode |-> "images", files |-> fn_in,
                                 ffmpeg_cmd |-> ImagesFfmpegCmd(fn_in)])
    /\ UNCHANGED <<fn_pc, fn_in>>
    /\ UNCHANGED coreVars

\* between two calls an ffmpeg.exe is put in place or taken away
ToolFilesChange ==
    /\ fn_pc = "tool"
    /\ fn_in' \in ToolFiles \ {fn_in}
    /\ UNCHANGED <<fn_pc, fn_out>>
    /\ UNCHANGED coreVars

ToolInit ==
    /\ CoreIdle
    /\ fn_pc = "tool"
    /\ fn_in \in ToolFiles
    /\ fn_out = << >>

ToolNext == ToolForSegments \/ ToolForImages \/ ToolFilesChange

ToolSpec == ToolInit /\ [][ToolNext]_vars

\* ------------------------------------------------------------------------
\* HookSpec: builtins.print, subprocess.Popen and subprocess.run as
\* download_with_logging replaces and restores them (src/linkkf_gui.py lines
\* 586-638), the workers started and stopped as in lines 540-584 and 640-716
\* ------------------------------------------------------------------------

\* the three process-wide names
HookNames == {"print", "Popen", "run"}

\* what is bound to them before any batch
Original == "original"

\* download_with_logging, statement by statement: lines 588, 610, 613, 621,
\* 629, 630, 633, 636, 637, 638
HookSteps ==
    <<[op |-> "save", name |-> "print"], [op |-> "install", name |-> "print"],
      [op |-> "save", name |-> "Popen"], [op |-> "save", name |-> "run"],
      [op |-> "install", name |-> "Popen"], [op |-> "install", name |-> "run"],
      [op |-> "download", name |-> "none"],
      [op |-> "restore", name |-> "print"], [op |-> "restore", name |-> "Popen"],
      [op |-> "restore", name |-> "run"]>>

\* the workers inside download_with_logging
HookInFlight == {w \in Workers : fn_out.at[w] \in DOMAIN HookSteps}

\* where the worker goes after a statement: the next one, or back to the loop
\* of download_worker (position 0)
HookAfter(k) == IF k = Len(HookSteps) THEN 0 ELSE k + 1

\* start_download, lines 640-681
HookStart ==
    /\ fn_pc = "hooks"
    /\ ~fn_out.is_downloading
    /\ \E w \in Workers :
         /\ fn_out.at[w] = -1
         /\ \A v \in Workers : v < w => fn_out.at[v] # -1
         /\ \E n \in 1..MaxUrls :
              fn_out' = [fn_out EXCEPT !.is_downloading = TRUE, !.at[w] = 0,
                                       !.urls[w] = n]
    /\ UNCHANGED <<fn_pc, fn_in>>
    /\ UNCHANGED coreVars

\* stop_download, lines 683-690, with the download_finished it calls
HookStop ==
    /\ fn_pc = "hooks"
    /\ fn_out.is_downloading
    /\ fn_out' = [fn_out EXCEPT !.is_downloading = FALSE]
    /\ UNCHANGED <<fn_pc, fn_in>>
    /\ UNCHANGED coreVars

\* download_finished run by the main loop for the root.after of line 584
HookFinished ==
    /\ fn_pc = "hooks"
    /\ fn_out.after_queue > 0
    /\ fn_out' = [fn_out EXCEPT !.is_downloading = FALSE, !.after_queue = @ - 1]
    /\ UNCHANGED <<fn_pc, fn_in>>
    /\ UNCHANGED coreVars

\* download_worker, lines 548-550 and 566: the head of the loop, the test of
\* is_downloading and the call of download_with_logging
HookLoop(w) ==
    /\ fn_pc = "hooks"
    /\ fn_out.at[w] = 0
    /\ fn_out.i[w] < fn_out.urls[w]
    /\ fn_out.is_downloading
    /\ fn_out' = [fn_out EXCEPT !.i[w] = @ + 1, !.at[w] = 1]
    /\ UNCHANGED <<fn_pc, fn_in>>
    /\ UNCHANGED coreVars

\* lines 588, 613, 621: original_<name> = the current binding of the name
HookSave(w) ==
    /\ fn_pc = "hooks"
    /\ fn_out.at[w] \in DOMAIN HookSteps
    /\ LET step == HookSteps[fn_out.at[w]] IN
         /\ step.op = "save"
         /\ fn_out' = [fn_out EXCEPT !.original[w][step.name] = fn_out.bound[step.name],
                                     !.at[w] = HookAfter(@)]
    /\ UNCHANGED <<fn_pc, fn_in>>
    /\ UNCHANGED coreVars

\* lines 610, 629, 630: the name is bound to the closure of this call
HookInstall(w) ==
    /\ fn_pc = "hooks"
    /\ fn_out.at[w] \in DOMAIN HookSteps
    /\ LET step == HookSteps[fn_out.at[w]] IN
         /\ step.op = "install"
         /\ fn_out' = [fn_out EXCEPT !.bound[step.name] = <<w, fn_out.i[w]>>,
                                     !.at[w] = HookAfter(@)]
    /\ UNCHANGED <<fn_pc, fn_in>>
    /\ UNCHANGED coreVars

\* lines 632-634: download_video returns or raises; `finally` follows
HookDownload(w) ==
    /\ fn_pc = "hooks"
    /\ fn_out.at[w] \in DOMAIN HookSteps
    /\ HookSteps[fn_out.at[w]].op = "download"
    /\ fn_out' = [fn_out EXCEPT !.at[w] = HookAfter(@)]
    /\ UNCHANGED <<fn_pc, fn_in>>
    /\ UNCHANGED coreVars

\* lines 636-638: the name is bound to what this call saved
Restored(w, name) == fn_out.original[w][name]

HookRestore(w) ==
    /\ fn_pc = "hooks"
    /\ fn_out.at[w] \in DOMAIN HookSteps
    /\ LET step == HookSteps[fn_out.at[w]] IN
         /\ step.op = "restore"
         /\ fn_out' = [fn_out EXCEPT !.bound[step.name] = Restored(w, step.name),
                                     !.at[w] = HookAfter(@)]
    /\ UNCHANGED <<fn_pc, fn_in>>
    /\ UNCHANGED coreVars

\* lines 549-550 and 583-584: the loop is left, download_finished scheduled
HookExit(w) ==
    /\ fn_pc = "hooks"
    /\ fn_out.at[w] = 0
    /\ fn_out.i[w] = fn_out.urls[w] \/ ~fn_out.is_downloading
    /\ fn_out' = [fn_out EXCEPT !.at[w] = -2, !.after_queue = @ + 1]
    /\ UNCHANGED <<fn_pc, fn_in>>
    /\ UNCHANGED coreVars

\* positions: -1 not started, 0 in the loop of download_worker, 1..10 at a
\* statement of download_with_logging, -2 returned
HookInit ==
    /\ CoreIdle
    /\ fn_pc = "hooks"
    /\ fn_in = << >>
    /\ fn_out = [is_downloading |-> FALSE, after_queue |-> 0,
                 at |-> [w \in Workers |-> -1],
                 urls |-> [w \in Workers |-> 0],
                 i |-> [w \in Workers |-> 0],
                 bound |-> [name \in HookNames |-> Original],
                 original |-> [w \in Workers |-> [name \in HookNames |-> Original]]]

HookNext ==
    \/ HookStart
    \/ HookStop
    \/ HookFinished
    \/ \E w \in Workers :
         \/ HookLoop(w)
         \/ HookSave(w)
         \/ HookInstall(w)
         \/ HookDownload(w)
         \/ HookRestore(w)
         \/ HookExit(w)

HookSpec == HookInit /\ [][HookNext]_vars

\* ------------------------------------------------------------------------
\* FrontSpec: validate_urls of the GUI (src/linkkf_gui.py lines 491-508) and
\* validate_url of the core on what it forwards
\* ------------------------------------------------------------------------

\* line 494 and 501: re.match(r'https://linkkf\.live/player/v\d+-sub-\d+/?',
\* url): anchored at the start only and the slash optional, so anything may
\* follow the digits
FrontMatches(url) ==
    /\ url.scheme = "https"
    /\ url.host = "linkkf.live"
    /\ url.dir = "/player/"
    /\ url.vdigits >= 1
    /\ url.sdigits >= 1

\* url.endswith('/')
EndsWithSlash(url) == url.tail # << >> /\ url.tail[Len(url.tail)] = "/"

\* lines 502-503: `if not url.endswith('/'): url += '/'`
WithSlash(url) ==
    IF EndsWithSlash(url) THEN url ELSE [url EXCEPT !.tail = Append(@, "/")]

\* validate_urls (lines 491-508) on one entered line
FrontValidate ==
    /\ fn_pc = "front"
    /\ fn_out' = IF FrontMatches(fn_in)
                   THEN [valid_urls |-> <<WithSlash(fn_in)>>, core |-> "pending"]
                   ELSE [valid_urls |-> << >>, core |-> "pending"]
    /\ fn_pc' = "forwarded"
    /\ UNCHANGED fn_in
    /\ UNCHANGED coreVars

\* extract_video_info, downloader lines 78-80, on a forwarded URL
FrontCore ==
    /\ fn_pc = "forwarded"
    /\ fn_out.valid_urls # << >>
    /\ fn_out' = [fn_out EXCEPT !.core = IF validate_url(fn_out.valid_urls[1])
                                           THEN "valid" ELSE "InvalidUrl"]
    /\ fn_pc' = "core"
    /\ UNCHANGED fn_in
    /\ UNCHANGED coreVars

FrontInit ==
    /\ CoreIdle
    /\ fn_pc = "front"
    /\ fn_in \in Urls
    /\ fn_out = [valid_urls |-> << >>, core |-> "pending"]

FrontNext == FrontValidate \/ FrontCore

FrontSpec == FrontInit /\ [][FrontNext]_vars

\* ------------------------------------------------------------------------
\* Properties
\* ------------------------------------------------------------------------

\* C1: in a session whose manifest has N >= 1 entries and whose S successful
\* fetch units were all collected, an assembler is invoked (once) if and only
\* if S/N >= 0.6, a ratio of exactly 0.6 included; below 0.6 the session
\* returns failure with InsufficientSuccessRatio and no assembler is invoked.
\* No assembler is invoked before the gate.
C1_GateDecidesAssembly ==
    LET S == Cardinality({i \in DOMAIN unit : unit[i] = "ok"})
        N == NumSegments
    IN  /\ (pc \notin {"finally", "dv_after_download", "dv_done"} => merge_calls = << >>)
        /\ (pc \in {"finally", "dv_after_download", "dv_done"} /\ N >= 1 /\ ~raised) =>
             /\ (merge_calls # << >>) <=> (5 * S >= 3 * N)
             /\ Len(merge_calls) <= 1
             /\ (5 * S < 3 * N) =>
                  /\ session_ret = "False"
                  /\ failure = "InsufficientSuccessRatio"

\* the boundary: 3 of 5 units succeeded and the assembler was invoked
C1_Witness ==
    /\ pc = "finally"
    /\ ~raised
    /\ NumSegments = 5
    /\ Cardinality({i \in DOMAIN unit : unit[i] = "ok"}) = 3
    /\ Len(merge_calls) = 1

\* C2: whatever the order in which the fetch units complete, the files handed
\* to the assembler are in ascending segment index.
C2_AssemblerOrderAscending ==
    sort_pc = "sorted" =>
        \A j, k \in 1..Len(sort_out) : j < k => sort_out[j] < sort_out[k]

\* C3: a session that created its temp workspace returns, on every exit path,
\* with the workspace directory gone and no file left in it.
C3_WorkspaceGoneAtReturn ==
    [][\A w \in Workers :
         (worker_pc[w] = "unlink" /\ worker_pc'[w] = "count") =>
             (~temp_exists' /\ temp_files' = {})]_vars

\* C4: under every interleaving of start, stop and worker progress, at most
\* one target download is in flight.
C4_OneTargetInFlight == Cardinality(InFlight) <= 1

\* C5: once stop was requested for a batch, its worker starts no further
\* target of that batch, whatever the user does afterwards.
C5_NoTargetAfterStop ==
    [][\A w \in Workers : stop_requested[w] => worker_i'[w] = worker_i[w]]_vars

\* C6: the manifest requests are issued in the order profiles 1..5 of the
\* catalog, then the countries in order with the first profile; the first
\* attempt classified as a manifest is accepted and is the last attempt; a
\* country attempt is issued only after all five profile attempts failed.
C6_AttemptOrder ==
    /\ Len(attempts) <= Len(browser_profiles) + Len(countries)
    /\ \A k \in 1..Len(attempts) :
         /\ IF k <= Len(browser_profiles)
              THEN /\ attempts[k].pass = "profiles"
                   /\ attempts[k].profile = browser_profiles[k]
                   /\ attempts[k].country = None
              ELSE /\ attempts[k].pass = "countries"
                   /\ attempts[k].profile = browser_profiles[1]
                   /\ attempts[k].country = countries[k - Len(browser_profiles)]
         /\ attempts[k].manifest => (k = Len(attempts) /\ success)
    /\ (pc \in {"m3u8_primary", "m3u8_after_primary", "m3u8_secondary", "m3u8_check"}) =>
         (success <=> (attempts # << >> /\ attempts[Len(attempts)].manifest))

\* the manifest is accepted at the second country, after seven attempts
C6_Witness ==
    /\ pc = "m3u8_check"
    /\ Len(attempts) = 7
    /\ attempts[7].manifest
    /\ attempts[7].country = "US"
    /\ success

\* C7: the manifest fetch fails with ManifestUnavailable exactly when all
\* nine attempts of the two passes ended without a manifest; then the
\* session returns failure with no fetch unit, no temp workspace and no
\* assembler call; in every other case the session goes on to parse the
\* manifest.
C7_ManifestUnavailable ==
    /\ [](failure = "ManifestUnavailable" =>
            /\ session_ret = "False"
            /\ result # "True"
            /\ segments = << >>
            /\ unit = << >>
            /\ ~temp_exists
            /\ temp_files = {}
            /\ merge_calls = << >>)
    /\ [][pc = "m3u8_check" =>
            /\ (failure' = "ManifestUnavailable") <=>
                 /\ Len(attempts) = Len(browser_profiles) + Len(countries)
                 /\ \A k \in 1..Len(attempts) : ~attempts[k].manifest
            /\ (failure' # "ManifestUnavailable") => pc' = "parse"]_vars
    /\ [][(failure' = "ManifestUnavailable" /\ failure # "ManifestUnavailable")
            => pc = "m3u8_check"]_vars

\* a target that ended with ManifestUnavailable
C7_Witness ==
    /\ failure = "ManifestUnavailable"
    /\ pc = "dv_done"
    /\ result = "False"

\* C8: a fetch unit issues at most three requests, with the first three
\* profiles of the catalog in order; it goes on to the next profile after a
\* request that failed, answered with markup, or left an empty file; it
\* returns its indexed file and the entry's duration at the first request
\* that wrote a non-empty file, and an error only after all three failed.
C8_UnitProfiles ==
    /\ Len(req_log) <= 3
    /\ \A k \in 1..Len(req_log) :
         /\ req_log[k].profile = browser_profiles[k]
         /\ (req_log[k].outcome = "written") => k = Len(req_log)
    /\ (unit_ret.st = "file") <=>
         (req_log # << >> /\ req_log[Len(req_log)].outcome = "written")
    /\ (unit_ret.st = "file") =>
         /\ unit_ret.path = SegmentName(unit_index, ExtOf(segments[unit_index]))
         /\ unit_ret.duration = segment_durations[unit_index]
         /\ unit_file = "full"
    /\ (unit_ret.st = "error") =>
         /\ Len(req_log) = 3
         /\ \A k \in 1..3 : req_log[k].outcome # "written"
    /\ (Len(req_log) = 3 /\ req_log[3].outcome # "written") => unit_ret.st # "file"

\* the unit succeeds at its third request, after markup and an empty file
C8_Witness ==
    /\ unit_ret.st = "file"
    /\ Len(req_log) = 3
    /\ req_log[1].outcome = "html"
    /\ req_log[2].outcome = "empty"

\* C9: after a failure of the resolution stage (invalid URL, page or frame
\* fetch error, frame / data id / manifest URL not found, manifest
\* unavailable) download_video returns False at once: no fetch unit runs, no
\* assembler is invoked, no output file is written, no temp workspace and no
\* subtitle file is produced.
C9_ResolutionFailureAborts ==
    failure \in {"InvalidUrl", "PageFetchError", "PageFetchError:frame",
                 "ExtractionFailure:iframe", "ExtractionFailure:data-id",
                 "ExtractionFailure:m3u8", "UnboundLocalError:iframe_domain",
                 "ManifestUnavailable"} =>
        /\ pc \in {"dv_check_info", "dv_after_download", "dv_done"}
        /\ (pc = "dv_done" => result = "False")
        /\ result # "True"
        /\ segments = << >>
        /\ unit = << >>
        /\ merge_calls = << >>
        /\ output_file = "absent"
        /\ ~temp_exists
        /\ temp_files = {}
        /\ subtitle_downloads = 0

\* a target whose frame URL could not be found
C9_Witness ==
    /\ failure = "ExtractionFailure:iframe"
    /\ pc = "dv_done"
    /\ result = "False"

\* C10: whenever a manifest URL was resolved, by any of the four strategies,
\* extract_video_info returns a result, whatever the caption track and the
\* subtitle probes do.
C10_SubtitleNeverFatal ==
    (pc = "dv_check_info" /\ m3u8_by # 0) => video_info = "Info"

\* C11: download_video returns what the download-and-assembly stage returned,
\* whatever download_subtitle did; download_subtitle is called at most once,
\* and only after that stage succeeded with a subtitle URL resolved.
C11_SubtitleNeverFatal ==
    /\ (pc = "dv_done" /\ video_info = "Info") => result = session_ret
    /\ subtitle_downloads <= 1
    /\ (subtitle_downloads = 0) <=> (subtitle_ret = "none")
    /\ (subtitle_downloads > 0) =>
         /\ pc = "dv_done"
         /\ session_ret = "True"
         /\ subtitle_url # None

\* the subtitle download failed and the target succeeded
C11_Witness ==
    /\ pc = "dv_done"
    /\ subtitle_ret = "False"
    /\ result = "True"

\* C12: in both probing stages, a redirect to a disallowed domain is never
\* accepted as the resolved frame URL or manifest URL.
C12_NoDisallowedRedirect ==
    (fn_pc = "probe" /\ fn_out.url.kind = "redirect") => ~fn_out.url.invalid

\* C13: validate(url) is true exactly for the URLs of the form
\* scheme://host/player/v<digits>-sub-<digits> with an optional trailing
\* slash, for any scheme and any host.
C13_ValidateMatchesForm ==
    fn_pc = "validated" =>
        (fn_out <=> /\ fn_in.dir = "/player/"
                    /\ fn_in.vdigits >= 1
                    /\ fn_in.sdigits >= 1
                    /\ fn_in.tail \in {<< >>, <<"/">>})

\* C14: the parser yields one entry per line that is neither empty nor a
\* comment, in encounter order (so with indexes 0, 1, 2, ...); the duration
\* of an entry is the most recently declared duration before it, 5.0 if none
\* was declared; an absolute line passes through unchanged, a root-relative
\* line is resolved against the scheme and host of the playlist URL, every
\* other line against its directory.
C14_ParseManifest ==
    fn_pc = "parsed" =>
        LET lines == fn_in
            uris == {k \in 1..Len(lines) : lines[k].kind = "uri"}
            \* the line of the i-th entry
            at(i) == CHOOSE k \in uris : Cardinality({j \in uris : j < k}) = i - 1
            declared(k) == {j \in 1..(k - 1) : lines[j].kind = "extinf"}
            last(k) == CHOOSE j \in declared(k) : \A h \in declared(k) : h <= j
            expected_duration(k) ==
                IF declared(k) = {} THEN 50 ELSE lines[last(k)].dur
            expected_url(t) ==
                IF t[1] \in {"https://cdn.example", "https://other.example"} THEN t
                ELSE IF t[1] \in {"/path/", "/root/"} THEN <<"https://cdn.example">> \o t
                ELSE <<"https://cdn.example", "/path/">> \o t
        IN  /\ Len(fn_out.entries) = Cardinality(uris)
            /\ \A i \in 1..Len(fn_out.entries) :
                 /\ fn_out.entries[i].url = expected_url(lines[at(i)].text)
                 /\ fn_out.entries[i].duration = expected_duration(at(i))

\* C15: parsing is idempotent under re-serialization: the playlist written
\* from the parsed entries (marker line, then per entry its duration
\* declaration and its absolute URL), parsed against the same base, gives the
\* same entries in the same order.
C15_ReparseIdentical ==
    fn_pc = "reparsed" => fn_out.again = fn_out.entries

\* a relative and a root-relative line under a declared duration, re-parsed
C15_Witness ==
    /\ fn_pc = "reparsed"
    /\ fn_out.entries =
         <<[url |-> <<"https://cdn.example", "/path/", "seg0.ts">>, duration |-> 40],
           [url |-> <<"https://cdn.example", "/root/", "b.ts">>, duration |-> 40]>>
    /\ fn_out.again = fn_out.entries

\* C16: a data id ending in n<digit> (digit 1..6) yields candidates built from
\* the s<digit> variant of the id, one ending in s<digit> yields candidates
\* built from the n<digit> variant, and an id without such an end yields, for
\* every frame host, only candidates that embed the id unchanged.
C16_SuffixMutation ==
    fn_pc = "built" =>
        LET id == fn_in.id
            recognized == id.tail.letter \in {"n", "s"} /\ id.tail.digit \in 1..6
            other == IF id.tail.letter = "n" THEN "s" ELSE "n"
        IN  IF recognized
              THEN \E k \in 1..Len(fn_out) :
                     /\ fn_out[k].cut
                     /\ fn_out[k].add = [letter |-> other, digit |-> id.tail.digit]
              ELSE \A k \in 1..Len(fn_out) :
                     /\ ~fn_out[k].cut
                     /\ fn_out[k].add = [letter |-> "", digit |-> 0]

\* C17: a body answered with status 200 is classified by a fixed precedence:
\* Manifest if it begins with the playlist marker in any letter case,
\* otherwise Html if it begins with a document marker, otherwise Blocked if
\* a block-page word occurs in it, otherwise Unknown; the answer is accepted
\* as the playlist exactly when it is classified Manifest.  (The beginning of
\* a body is taken after its surrounding blanks, as line 614 takes it.)
C17_ClassifyPrecedence ==
    fn_pc = "classified" =>
        LET body == fn_in.body
            blanks == {k \in 1..Len(body) : \A j \in 1..k : body[j] = " "}
            first == IF Cardinality(blanks) < Len(body)
                       THEN body[Cardinality(blanks) + 1] ELSE " "
            marker == first \in {"#EXTM3U", "#extm3u"}
            markup == first \in {"<!DOCTYPE html", "<html", "<HTML"}
            blockpage == \E k \in 1..Len(body) : body[k] \in {"Cloudflare", "google.com"}
        IN  /\ fn_out.accepted <=> fn_out.content_type = "M3U8"
            /\ fn_out.content_type \in {"none", "M3U8", "HTML", "BLOCKED", "UNKNOWN"}
            /\ (fn_out.content_type = "none") <=> (fn_in.raised \/ fn_in.status # 200)
            /\ fn_out.content_type # "none" =>
                  /\ (fn_out.content_type = "M3U8") <=> marker
                  /\ (fn_out.content_type = "HTML") <=> (~marker /\ markup)
                  /\ (fn_out.content_type = "BLOCKED") <=> (~marker /\ ~markup /\ blockpage)
                  /\ (fn_out.content_type = "UNKNOWN") <=> (~marker /\ ~markup /\ ~blockpage)

\* a body that begins with the marker and names a block page is accepted
C17_Witness ==
    /\ fn_pc = "classified"
    /\ fn_in.body = <<"#EXTM3U", "Cloudflare">>
    /\ fn_out.content_type = "M3U8"
    /\ fn_out.accepted

\* C18: a step in which a target of a batch fails leaves the output file of
\* every target of the batch that completed successfully before it as it
\* was, whatever the titles of the pages.
C18_FailureIsolated ==
    [][(Len(fn_out'.results) > Len(fn_out.results)
          /\ fn_out'.results[Len(fn_out'.results)] = "False")
         => (\A j \in 1..Len(fn_out.results) :
               fn_out.results[j] = "True" =>
                 fn_out'.disk[fn_in[j].title] = fn_out.disk[fn_in[j].title])]_vars

\* C19: when a call of the media assembler has returned, whichever way the
\* tool ended (exit code zero, non-zero exit code, timeout, tool missing),
\* the file list it wrote does not exist.
C19_FileListRemoved ==
    (fn_pc = "asm_returned" /\ fn_in.mode = "media") => ~fn_out.file_list

\* C20: every call of either assembler returns a result; the result is
\* success exactly after exit code zero; and of two calls that failed for
\* different causes (tool missing, timeout, non-zero exit code) the caller
\* gets different results.
C20_FailureKindsDistinct ==
    \A k \in 1..Len(fn_out.log) :
        LET call == fn_out.log[k] IN
        /\ call.ret \in {"True", "False"}
        /\ (call.ret = "True") <=> (call.tool = "exit 0")
        /\ \A j \in 1..Len(fn_out.log) :
             LET other == fn_out.log[j] IN
             (call.tool # "exit 0" /\ other.tool # "exit 0" /\ call.tool # other.tool)
               => call.ret # other.ret

\* C21: the sanitized title contains no character illegal in a path
\* component and no apostrophe, its only whitespace is single blanks, none of
\* them at either end, and it is at most 100 characters long.
C21_SafeTitle ==
    fn_pc = "sanitized" =>
        /\ \A k \in 1..Len(fn_out) :
              /\ fn_out[k].ch \notin {"/", "'", "\t"}
              /\ fn_out[k].n >= 1
              /\ fn_out[k].ch = " " =>
                    /\ fn_out[k].n = 1
                    /\ k > 1 /\ k < Len(fn_out)
                    /\ fn_out[k - 1].ch # " " /\ fn_out[k + 1].ch # " "
        /\ TitleLen(fn_out) <= 100

\* a title of 101 characters whose hundredth is a blank: cut and trimmed
C21_Witness ==
    /\ fn_pc = "sanitized"
    /\ fn_in = <<[ch |-> "a", n |-> 99], [ch |-> "\t", n |-> 1], [ch |-> "a", n |-> 1]>>
    /\ fn_out = <<[ch |-> "a", n |-> 99]>>

\* C22: from a page whose script assigns a URL to player_post the frame URL
\* extracted is the assigned value, intact, whatever the spacing and quoting
\* of the assignment.
C22_MarkerValueIntact ==
    fn_pc = "extracted" => fn_out.iframe_url = AssignedValue(fn_in)

\* C23: when the worker of a batch that was not cancelled leaves its loop, it
\* has attempted every target of the batch, one after the other, each counted
\* once as completed or failed: completed + failed = total = the number of
\* targets.
C23_BatchTotals ==
    \A w \in Workers :
        (worker_pc[w] = "exit" /\ ~stop_requested[w]) =>
            /\ worker_i[w] = worker_urls[w]
            /\ download_stats.total = worker_urls[w]
            /\ download_stats.completed + download_stats.failed = download_stats.total

\* C24: download_video terminates with a boolean, after a bounded number of
\* requests: each page and each candidate list is gone through at most once
\* and the manifest is requested at most 5 + 4 times (the at most 3 requests
\* of a fetch unit are C8's).
C24_Terminates ==
    /\ [](/\ Len(attempts) <= 5 + 4
          /\ \A j, k \in 1..Len(probes) : j # k => probes[j] # probes[k])
    /\ <>(pc = "dv_done" /\ result \in {"True", "False"})

\* a target that ends successfully although a segment failed
C24_Witness ==
    /\ pc = "dv_done"
    /\ result = "True"
    /\ failed_count > 0

\* C25: once the manifest is parsed the mode is ImageSequence exactly if the
\* first entry's URL ends in .jpg, .jpeg or .png, whatever the other entries
\* are; a session that passes the gate invokes one assembler, the one of that
\* mode, also when the first entry's own fetch unit failed.
C25_ModeFromFirstEntry ==
    (pc \in {"pool", "finally", "dv_after_download", "dv_done"} /\ NumSegments >= 1) =>
        LET S == Cardinality({i \in DOMAIN unit : unit[i] = "ok"})
            image == segments[0] \in {".jpg", ".jpeg", ".png"}
        IN  /\ is_image_based = image
            /\ (pc # "pool" /\ ~raised /\ 5 * S >= 3 * NumSegments) =>
                  /\ Len(merge_calls) = 1
                  /\ merge_calls[1].mode = IF image THEN "images" ELSE "media"

\* an image manifest whose first entry failed and whose other entries are
\* not images: the image assembler is invoked
C25_Witness ==
    /\ pc = "dv_done"
    /\ NumSegments = 3
    /\ segments[0] = ".jpeg"
    /\ segments[1] = ".ts"
    /\ unit[0] # "ok"
    /\ Len(merge_calls) = 1
    /\ merge_calls[1].mode = "images"

\* C26: in either cascade the strategies are attempted in the order 1, 2, 3,
\* 4, a strategy only if no earlier one found a link; no probe is issued
\* once a link was extracted directly; the link accepted is the one of the
\* first strategy that found one and is not replaced; and the stage fails
\* only if none of the four found a link.
C26_FirstSuccessWins ==
    /\ \A j, l \in 1..Len(fn_out.tried) : j < l => fn_out.tried[j] < fn_out.tried[l]
    /\ \A j \in 1..Len(fn_out.tried) :
         \A e \in 1..(fn_out.tried[j] - 1) : e \notin fn_in.hit
    /\ fn_out.probed => fn_in.hit \cap (1..3) = {}
    /\ fn_out.url # 0 => fn_out.url = FirstHit(fn_in.hit)
    /\ fn_pc = "ExtractionFailure" => fn_in.hit = {}
    /\ fn_pc = "accepted" => fn_out.url = FirstHit(fn_in.hit)

\* the second and the fourth strategy would both find a link: the second
\* wins and nothing is probed
C26_Witness ==
    /\ fn_pc = "accepted"
    /\ fn_in.hit = {2, 4}
    /\ fn_out.tried = <<1, 2>>
    /\ fn_out.url = 2
    /\ ~fn_out.probed

\* C27: at no time do more than 8 fetch units run; there is exactly one unit
\* per manifest entry; and the gate is reached only when every unit has
\* completed.
C27_PoolWidth ==
    /\ Cardinality(RunningUnits) <= 8
    /\ DOMAIN fn_out.futures = 0..(fn_in - 1)
    /\ fn_pc = "gate" => \A i \in DOMAIN fn_out.futures : fn_out.futures[i] = "done"

\* ten entries: eight units run and two wait
C27_Witness ==
    /\ fn_pc = "pool"
    /\ fn_in = 10
    /\ Cardinality(RunningUnits) = 8
    /\ fn_out.futures[8] = "queued"
    /\ fn_out.futures[9] = "queued"

\* C28: when the frame URL has no parameter named url, extract_video_info
\* returns None as an ExtractionFailure without having asked for the frame
\* page or probed any manifest or subtitle candidate.
C28_NoDataIdNoRequests ==
    ((\A i \in DOMAIN fn_in : fn_in[i].name # "url") /\ fn_pc # "data_id")
        => /\ fn_pc = "returned"
           /\ fn_out.ret = None
           /\ fn_out.failure = "ExtractionFailure"
           /\ fn_out.requests = << >>

\* a frame URL `...?id=42n1` has been refused
C28_Witness ==
    /\ fn_in = <<[name |-> "id", value |-> "42n1"]>>
    /\ fn_pc = "returned"
    /\ fn_out.ret = None
    /\ fn_out.requests = << >>

\* C29: with N >= 1 images, once the list is written the scratch directory
\* holds N copies, the copy named img_<i> being image i of the call; the list
\* has 2N+1 lines: for each i in order the file line of copy i and the
\* duration line of image i, then the file line of the last copy once more.
C29_ImageScript ==
    fn_pc = "img_run" =>
        LET N == Len(fn_in.image_files)
            lines == fn_out.concat_list
        IN  /\ Cardinality(fn_out.copies) = N
            /\ \A i \in 0..(N - 1) :
                 /\ [name |-> TempImageName(i), content |-> fn_in.image_files[i + 1]]
                      \in fn_out.copies
                 /\ \A j \in 0..(N - 1) : i # j => TempImageName(i) # TempImageName(j)
            /\ Len(lines) = 2 * N + 1
            /\ \A i \in 0..(N - 1) :
                 /\ lines[2 * i + 1] = [file |-> TempImageName(i)]
                 /\ lines[2 * i + 2] = [duration |-> fn_in.durations[i + 1]]
            /\ lines[2 * N + 1] = [file |-> TempImageName(N - 1)]

\* images 0, 2 and 3 (segment 1 failed) with durations 4.0, 6.5 and 4.0
C29_Witness ==
    /\ fn_pc = "img_run"
    /\ fn_in = [image_files |-> <<0, 2, 3>>, durations |-> <<40, 65, 40>>]
    /\ Len(fn_out.concat_list) = 7
    /\ [name |-> TempImageName(1), content |-> 2] \in fn_out.copies

\* C30: the scratch directory of a call of the image assembler did not exist
\* before the call made it, is neither the output path nor the session's
\* temp_segments, and does not exist when the call has returned, whichever
\* way the tool ended.
C30_ScratchGone ==
    /\ fn_out.temp_dir # None =>
         /\ fn_out.fresh
         /\ fn_out.temp_dir \notin {OutputPath, WorkspacePath}
    /\ (fn_pc = "asm_returned" /\ fn_in.mode = "images") =>
         /\ fn_out.temp_dir # None
         /\ fn_out.temp_dir \notin fn_out.paths
         /\ ~fn_out.concat_list
         /\ WorkspacePath \in fn_out.paths

\* a second call, the tool timing out, next to a directory another run left
C30_Witness ==
    /\ fn_pc = "asm_returned"
    /\ fn_in.mode = "images"
    /\ fn_in.tool = "timeout"
    /\ Len(fn_out.log) = 2
    /\ fn_out.log[1].mode = "images"
    /\ "tmp/linkkf_a" \in fn_out.paths
    /\ fn_out.temp_dir \notin fn_out.paths

\* C31: every call of either assembler picks the ffmpeg.exe next to the
\* script when it exists, else the one in the working directory when it
\* exists, else the tool on the path; and two calls that saw the same files
\* picked the same tool, whichever assembler made them.
C31_SameToolPriority ==
    \A k \in 1..Len(fn_out) :
        LET call == fn_out[k] IN
        /\ (call.ffmpeg_cmd = "local") <=> call.files.local_ffmpeg
        /\ (call.ffmpeg_cmd = "cwd") <=> (~call.files.local_ffmpeg /\ call.files.cwd_ffmpeg)
        /\ (call.ffmpeg_cmd = "ffmpeg") <=>
             (~call.files.local_ffmpeg /\ ~call.files.cwd_ffmpeg)
        /\ \A j \in 1..Len(fn_out) :
             fn_out[j].files = call.files => fn_out[j].ffmpeg_cmd = call.ffmpeg_cmd

\* both ffmpeg.exe files exist: the media assembler, then the image
\* assembler, each took the one next to the script
C31_Witness ==
    /\ Len(fn_out) = 2
    /\ fn_out[1].mode = "media"
    /\ fn_out[2].mode = "images"
    /\ fn_out[1].files = [local_ffmpeg |-> TRUE, cwd_ffmpeg |-> TRUE]
    /\ fn_out[2].files = fn_out[1].files
    /\ fn_out[2].ffmpeg_cmd = "local"

\* C32: when every unit has returned and the loop over the results ended
\* without an exception, then before the sort (still in the pool step) and
\* after it (from `finally` on) successes plus failures equal the number of
\* manifest entries, no index occurs twice among the successful files, and
\* the k-th duration is the one the manifest declared for the k-th file.
C32_CountedOncePaired ==
    ((\/ pc = "pool" /\ AllReturned
      \/ pc \in {"finally", "dv_after_download", "dv_done"})
     /\ NumSegments >= 1 /\ ~raised)
        => /\ Len(successful_files) + failed_count = NumSegments
           /\ Len(successful_durations) = Len(successful_files)
           /\ \A k \in 1..Len(successful_files) :
                /\ successful_files[k] \in DOMAIN segments
                /\ successful_durations[k] = segment_durations[successful_files[k]]
                /\ \A j \in 1..Len(successful_files) :
                     j # k => successful_files[j] # successful_files[k]

\* four entries, entry 1 failed, the three files sorted and handed to the
\* assembler
C32_Witness ==
    /\ pc = "finally"
    /\ ~raised
    /\ NumSegments = 4
    /\ failed_count = 1
    /\ successful_files = <<0, 2, 3>>
    /\ merge_calls # << >>

\* C33: at every moment the batch counters satisfy
\* 0 <= completed + failed <= total.
C33_CountersWithinTotal ==
    /\ download_stats.completed >= 0
    /\ download_stats.failed >= 0
    /\ download_stats.completed + download_stats.failed <= download_stats.total

\* C34: whenever no worker is inside download_with_logging, print,
\* subprocess.Popen and subprocess.run are bound to what they were bound to
\* before any batch began.
C34_HooksUndone ==
    HookInFlight = {} => \A name \in HookNames : fn_out.bound[name] = Original

\* C35: a URL that validate_urls accepted and forwarded is not rejected by
\* the core's validate_url.
C35_FrontImpliesCore ==
    fn_pc = "core" => fn_out.core = "valid"

\* runs of download_finished for the batch of worker w that the state shows:
\* one inside stop_download (line 690) if stop was pressed while the worker
\* lived, and one from the root.after of line 584 once the worker has
\* returned and the main loop has emptied its queue
FinishedRuns(w) ==
    (IF stop_requested[w] THEN 1 ELSE 0)
    + (IF worker_pc[w] = "dead" /\ after_queue = 0 THEN 1 ELSE 0)

\* C36: download_finished runs exactly once for every batch, stopped or not:
\* never more than once, and once when the batch is over.
C36_FinishedOnce ==
    \A w \in Workers :
        /\ FinishedRuns(w) <= 1
        /\ (worker_pc[w] = "dead" /\ after_queue = 0) => FinishedRuns(w) = 1

\* C37: while the list of segments is empty no temp workspace has been
\* created, no fetch unit exists, the pool, the gate and `finally` are not
\* reached and no assembler has been called; and when the manifest had been
\* fetched, the session has returned False for want of segments, and so does
\* download_video.
C37_EmptyManifestFailsEarly ==
    NumSegments = 0 =>
        /\ ~temp_exists
        /\ temp_files = {}
        /\ DOMAIN unit = {}
        /\ pc \notin {"pool", "finally"}
        /\ merge_calls = << >>
        /\ (success /\ pc \in {"dv_after_download", "dv_done"}) =>
             (session_ret = "False" /\ failure = "NoSegments")
        /\ (success /\ pc = "dv_done") => result = "False"

\* a fetched manifest without segment lines: download_video has returned
C37_Witness ==
    /\ pc = "dv_done"
    /\ success
    /\ NumSegments = 0
    /\ failure = "NoSegments"
    /\ result = "False"

=============================================================================
